---------------------------- MODULE Spec2Model ----------------------------
(***************************************************************************)
(* Unalix: the rule engine (parse_rules), the URL normaliser (parse_url)   *)
(* and the redirect resolver (unshort_url) of src/unalix/_utils.py.        *)
(*                                                                         *)
(* URLs, header values and bodies are TLA+ strings and are handled         *)
(* character by character, the way the Python code and the regular         *)
(* expressions of the ruleset handle them.                                 *)
(***************************************************************************)
EXTENDS Integers, Sequences, FiniteSets, TLC

(***************************************************************************)
(* Python values                                                           *)
(***************************************************************************)
\* Python's None, kept apart from every str the model builds.
None == "<None>"

IsStr(v) == v # None

(***************************************************************************)
(* str primitives                                                          *)
(***************************************************************************)
Char(s, i) == SubSeq(s, i, i)

\* s[n:]
Drop(s, n) == SubSeq(s, n + 1, Len(s))

\* s[:n]
Take(s, n) == SubSeq(s, 1, n)

\* s[i-1:].startswith(p), i counted from 1
StartsWithAt(s, i, p) ==
    /\ i >= 1
    /\ i + Len(p) - 1 <= Len(s)
    /\ SubSeq(s, i, i + Len(p) - 1) = p

StartsWith(s, p) == StartsWithAt(s, 1, p)

EndsWith(s, p) == Len(s) >= Len(p) /\ StartsWithAt(s, Len(s) - Len(p) + 1, p)

\* the value of F at v, with v evaluated once
With(v, F(_)) == CHOOSE r \in {F(x) : x \in {v}} : TRUE

\* min(S), 0 for the empty set
MinOr0(S) == IF S = {} THEN 0 ELSE CHOOSE j \in S : \A k \in S : j <= k

\* max(S), 0 for the empty set
MaxOr0(S) == IF S = {} THEN 0 ELSE CHOOSE j \in S : \A k \in S : j >= k

\* s.find(p, i-1) + 1: the first position >= i where p occurs, 0 when absent
Find(s, p, i) == MinOr0({j \in i..Len(s) : StartsWithAt(s, j, p)})

\* s.rfind(p) + 1: the last position where p occurs, 0 when absent
RFind(s, p) == MaxOr0({j \in 1..Len(s) : StartsWithAt(s, j, p)})

\* the first position >= i holding one of the characters of the set cs,
\* Len(s) + 1 when there is none
FindAnyOf(s, cs, i) == MinOr0({j \in i..(Len(s) + 1) : j = Len(s) + 1 \/ Char(s, j) \in cs})

Contains(s, p) == Find(s, p, 1) # 0

CharsOf(s) == {Char(s, i) : i \in 1..Len(s)}

UpperChars == "ABCDEFGHIJKLMNOPQRSTUVWXYZ"
LowerChars == "abcdefghijklmnopqrstuvwxyz"
DigitChars == "0123456789"

LowerChar(c) ==
    IF c \in CharsOf(UpperChars)
    THEN Char(LowerChars, Find(UpperChars, c, 1))
    ELSE c

RECURSIVE Lower(_)
Lower(s) == IF s = "" THEN "" ELSE LowerChar(Head(s)) \o Lower(Tail(s))


(***************************************************************************)
(* urllib.parse                                                            *)
(***************************************************************************)
\* urllib.parse.scheme_chars
SchemeChars == CharsOf(LowerChars) \cup CharsOf(UpperChars)
                 \cup CharsOf(DigitChars) \cup {"+", "-", "."}

AlphaChars == CharsOf(LowerChars) \cup CharsOf(UpperChars)

\* urllib.parse.uses_params and uses_netloc, as far as they hold http, https
\* and ftp (the schemes the model meets) and the empty scheme
UsesParams == {"", "ftp", "http", "https"}
UsesNetloc == {"", "ftp", "http", "https"}

\* urlsplit's scheme detection: the text before the first ":" is the scheme
\* when it starts with a letter and holds scheme characters only
HasScheme(url) ==
    LET i == Find(url, ":", 1)
    IN  /\ i > 1
        /\ Char(url, 1) \in AlphaChars
        /\ \A k \in 1..(i - 1) : Char(url, k) \in SchemeChars

\* urllib.parse._splitparams
SplitParams(url) ==
    With(IF RFind(url, "/") # 0 THEN Find(url, ";", RFind(url, "/")) ELSE Find(url, ";", 1),
         LAMBDA i : IF i = 0 THEN <<url, "">> ELSE <<Take(url, i - 1), Drop(url, i)>>)

\* s.split(c, 1) when c occurs in s, (s, "") when it does not
SplitFirst(s, c) ==
    With(Find(s, c, 1),
         LAMBDA i : IF i = 0 THEN <<s, "">> ELSE <<Take(s, i - 1), Drop(s, i)>>)

\* urlsplit: the scheme (lower-cased) and what follows the ":"
SplitScheme(url, default) ==
    IF HasScheme(url)
    THEN With(Find(url, ":", 1), LAMBDA i : <<Lower(Take(url, i - 1)), Drop(url, i)>>)
    ELSE <<default, url>>

\* urlsplit: the netloc, between "//" and the next "/", "?" or "#"
SplitNetloc(rest) ==
    IF StartsWith(rest, "//")
    THEN With(FindAnyOf(rest, {"/", "?", "#"}, 3),
              LAMBDA d : <<SubSeq(rest, 3, d - 1), Drop(rest, d - 1)>>)
    ELSE <<"", rest>>

\* urllib.parse.urlparse(url, scheme=default): the six components
urlparse_default(url, default) ==
    With(SplitScheme(url, default), LAMBDA a :
    With(SplitNetloc(a[2]), LAMBDA b :
    With(SplitFirst(b[2], "#"), LAMBDA c :
    With(SplitFirst(c[1], "?"), LAMBDA d :
    With(IF a[1] \in UsesParams /\ Contains(d[1], ";")
         THEN SplitParams(d[1]) ELSE <<d[1], "">>, LAMBDA e :
        [scheme |-> a[1], netloc |-> b[1], path |-> e[1],
         params |-> e[2], query |-> d[2], fragment |-> c[2]])))))

urlparse(url) == urlparse_default(url, "")

\* urlunsplit: "//" and the netloc in front of the path
WithNetloc(scheme, netloc, url) ==
    IF netloc # "" \/ (scheme # "" /\ scheme \in UsesNetloc /\ ~StartsWith(url, "//"))
    THEN "//" \o netloc \o (IF url # "" /\ ~StartsWith(url, "/") THEN "/" \o url ELSE url)
    ELSE url

\* urllib.parse.urlunparse
urlunparse(scheme, netloc, path, params, query, fragment) ==
    (IF scheme # "" THEN scheme \o ":" ELSE "")
      \o WithNetloc(scheme, netloc, IF params # "" THEN path \o ";" \o params ELSE path)
      \o (IF query # "" THEN "?" \o query ELSE "")
      \o (IF fragment # "" THEN "#" \o fragment ELSE "")

\* ParseResult.geturl()
geturl(p) == urlunparse(p.scheme, p.netloc, p.path, p.params, p.query, p.fragment)

\* str.rstrip("/")
RStripSlash(h) == Take(h, MaxOr0({j \in 1..Len(h) : Char(h, j) # "/"}))

\* os.path.dirname (posixpath): everything before the last "/", with the
\* trailing slashes of that head removed unless the head is all slashes
dirname(p) ==
    With(Take(p, RFind(p, "/")),
         LAMBDA head : IF head # "" /\ CharsOf(head) # {"/"} THEN RStripSlash(head) ELSE head)

\* os.path.join(a, b) (posixpath)
pathjoin(a, b) ==
    IF StartsWith(b, "/") THEN b
    ELSE IF a = "" \/ EndsWith(a, "/") THEN a \o b
    ELSE a \o "/" \o b

(***************************************************************************)
(* Percent-encoding: urllib.parse.unquote / quote and the two helpers      *)
(* taken from requests                                                     *)
(***************************************************************************)
\* The printable ASCII characters in code-point order: 32..95 and 97..126
\* (code 96, the backquote, cannot be written in a TLA+ string).  chr and ord
\* are defined on them; escapes of other bytes (control characters, UTF-8
\* sequences) are outside the inputs the model draws.
AsciiLow ==
    " !\"#$%&'()*+,-./0123456789:;<=>?@ABCDEFGHIJKLMNOPQRSTUVWXYZ[\\]^_"
AsciiHigh == "abcdefghijklmnopqrstuvwxyz{|}~"

HexDigits == "0123456789ABCDEF"

IsHex(c) == c # "" /\ (c \in CharsOf(DigitChars) \/ LowerChar(c) \in CharsOf("abcdef"))

IsAlnum(c) == c # "" /\ c \in (AlphaChars \cup CharsOf(DigitChars))

HexVal(c) ==
    IF c \in CharsOf(DigitChars) THEN Find(DigitChars, c, 1) - 1
    ELSE 9 + Find("abcdef", LowerChar(c), 1)

\* int(h, 16) for a two-character h
Hex2(h) == 16 * HexVal(Char(h, 1)) + HexVal(Char(h, 2))

chr(n) == IF n <= 95 THEN Char(AsciiLow, n - 31) ELSE Char(AsciiHigh, n - 96)
ord(c) ==
    IF c \in CharsOf(AsciiLow) THEN Find(AsciiLow, c, 1) + 31
    ELSE Find(AsciiHigh, c, 1) + 96

Printable(n) == n >= 32 /\ n <= 126 /\ n # 96

\* "%XX" of a character, upper-case hex as urllib.parse.quote writes it
PercentEncode(c) ==
    "%" \o Char(HexDigits, (ord(c) \div 16) + 1) \o Char(HexDigits, (ord(c) % 16) + 1)

\* src/unalix/_utils.py: UNRESERVED_SET
UNRESERVED_SET == AlphaChars \cup CharsOf(DigitChars) \cup {"-", ".", "_", "~"}

\* a "%" at position i of s followed by two hexadecimal digits
EscapeAt(s, i) ==
    /\ i + 2 <= Len(s)
    /\ IsHex(Char(s, i + 1)) /\ IsHex(Char(s, i + 2))
    /\ Printable(Hex2(SubSeq(s, i + 1, i + 2)))

\* urllib.parse.unquote: every %XX with two hex digits becomes its character
RECURSIVE unquote(_)
unquote(s) ==
    With(Find(s, "%", 1), LAMBDA i :
        IF i = 0 THEN s
        ELSE IF EscapeAt(s, i)
        THEN Take(s, i - 1) \o chr(Hex2(SubSeq(s, i + 1, i + 2))) \o unquote(Drop(s, i + 2))
        ELSE Take(s, i) \o unquote(Drop(s, i)))

\* int(h, 16) raises ValueError in unquote_unreserved for an alphanumeric,
\* non-hexadecimal pair after a "%"
UnquoteUnreservedRaises(uri) ==
    \E i \in 1..(Len(uri) - 2) :
        /\ Char(uri, i) = "%"
        /\ IsAlnum(Char(uri, i + 1)) /\ IsAlnum(Char(uri, i + 2))
        /\ ~(IsHex(Char(uri, i + 1)) /\ IsHex(Char(uri, i + 2)))

\* unquote_unreserved: un-escape the escapes of unreserved characters only
RECURSIVE unquote_unreserved(_)
unquote_unreserved(uri) ==
    With(Find(uri, "%", 1), LAMBDA i :
        IF i = 0 THEN uri
        ELSE IF EscapeAt(uri, i) /\ chr(Hex2(SubSeq(uri, i + 1, i + 2))) \in UNRESERVED_SET
        THEN Take(uri, i - 1) \o chr(Hex2(SubSeq(uri, i + 1, i + 2)))
                \o unquote_unreserved(Drop(uri, i + 2))
        ELSE Take(uri, i) \o unquote_unreserved(Drop(uri, i)))

\* urllib.parse.quote(s, safe): every character that is neither unreserved
\* nor in safe is percent-encoded
RECURSIVE quote(_, _)
quote(s, safe) ==
    With(MinOr0({j \in 1..Len(s) : Char(s, j) \notin (UNRESERVED_SET \cup CharsOf(safe))}),
         LAMBDA i :
            IF i = 0 THEN s
            ELSE Take(s, i - 1) \o PercentEncode(Char(s, i)) \o quote(Drop(s, i), safe))

safe_with_percent == "!#$%&'()*+,/:;=?@[]~"
safe_without_percent == "!#$&'()*+,/:;=?@[]~"

requote_uri(uri) ==
    IF UnquoteUnreservedRaises(uri)
    THEN quote(uri, safe_without_percent)
    ELSE quote(unquote_unreserved(uri), safe_with_percent)

(***************************************************************************)
(* Regular expressions.  A pattern is a record naming its shape; MatchEnd  *)
(* gives, for a pattern, a subject and a start position, the position just *)
(* past the match that re finds there (0: no match), Group1 its first      *)
(* capture group.  head and tail hold the ".*" that compile_patterns wraps *)
(* around a raw pattern.  The shapes are those of the ruleset below.       *)
(***************************************************************************)
\*   kind       regular expression (G is the capture group, C = [^stop])
\*   any        .*
\*   prefix     ^(?:l1|l2|...)
\*   unwrap     ^(?:l1|l2|...)G        with G = C repeated, greedy
\*   field      S NAME (?:=|%3[Dd]) [^&] repeated, S = G = %26|%23|%3[Ff]|&|#|\?
\*   litclass   LIT followed by C repeated
\*   run        (?:LIT)+
\*   lit        LIT
\*   end        (?:l1|l2|...)$
\*   attr       LIT G [stop]           with G = C repeated, greedy
Regex(kind, lits, stop) ==
    [kind |-> kind, lits |-> lits, stop |-> stop, head |-> "", tail |-> ""]

\* the first alternative of lits that occurs at position i of s, 0 if none
FirstAlt(lits, s, i) == MinOr0({k \in 1..Len(lits) : StartsWithAt(s, i, lits[k])})

\* the separators and the "=" of a field rule, in the order of the alternation
FieldSeps == <<"%26", "%23", "%3F", "%3f", "&", "#", "?">>
FieldEqs == <<"=", "%3D", "%3d">>

\* position just past a run of LIT starting at i (i itself when there is none)
RECURSIVE RunEnd(_, _, _)
RunEnd(lit, s, i) ==
    IF StartsWithAt(s, i, lit) THEN RunEnd(lit, s, i + Len(lit)) ELSE i

\* start of the capture group of an attr pattern wrapped in ".*": the greedy
\* head makes re take the last LIT that is still followed by a stop character
AttrStart(re, s) ==
    With(MaxOr0({j \in 1..Len(s) :
                    /\ StartsWithAt(s, j, re.lits[1])
                    /\ FindAnyOf(s, re.stop, j + Len(re.lits[1])) <= Len(s)}),
         LAMBDA j : IF j = 0 THEN 0 ELSE j + Len(re.lits[1]))

\* the span from b to the character before the next stop character
SpanFrom(re, s, b) == IF b = 0 THEN <<0, 0>> ELSE <<b, FindAnyOf(s, re.stop, b) - 1>>

\* where the capture group of re, matched at position i, begins and ends
GroupSpan(re, s, i) ==
    CASE re.kind = "unwrap" ->
            With(FirstAlt(re.lits, s, i), LAMBDA k :
                SpanFrom(re, s, IF i = 1 /\ k # 0 THEN i + Len(re.lits[k]) ELSE 0))
      [] re.kind = "field" ->
            With(FirstAlt(FieldSeps, s, i), LAMBDA k :
                IF k # 0 THEN <<i, i + Len(FieldSeps[k]) - 1>> ELSE <<0, 0>>)
      [] re.kind = "attr" ->
            With(IF re.head = ".*" THEN AttrStart(re, s)
                 ELSE IF StartsWithAt(s, i, re.lits[1]) THEN i + Len(re.lits[1])
                 ELSE 0,
                 LAMBDA b : IF b # 0 /\ FindAnyOf(s, re.stop, b) <= Len(s)
                            THEN SpanFrom(re, s, b) ELSE <<0, 0>>)
      [] OTHER -> <<0, 0>>

Group1(re, s, i) == With(GroupSpan(re, s, i), LAMBDA g : SubSeq(s, g[1], g[2]))

\* a field rule from position n, just past the separator: the name, "=" or
\* its escape, then everything up to the next "&"
FieldTail(re, s, n) ==
    IF ~StartsWithAt(s, n, re.lits[1]) THEN 0
    ELSE With(FirstAlt(FieldEqs, s, n + Len(re.lits[1])), LAMBDA q :
            IF q = 0 THEN 0
            ELSE FindAnyOf(s, {"&"}, n + Len(re.lits[1]) + Len(FieldEqs[q])))

MatchEnd(re, s, i) ==
    CASE re.kind = "any" -> Len(s) + 1
      [] re.kind = "prefix" ->
            With(FirstAlt(re.lits, s, i), LAMBDA k :
                IF i = 1 /\ k # 0 THEN i + Len(re.lits[k]) ELSE 0)
      [] re.kind = "unwrap" ->
            With(GroupSpan(re, s, i), LAMBDA g :
                IF g[1] = 0 THEN 0
                ELSE IF re.tail = ".*" THEN Len(s) + 1 ELSE g[2] + 1)
      [] re.kind = "field" ->
            With(FirstAlt(FieldSeps, s, i), LAMBDA k :
                IF k = 0 THEN 0 ELSE FieldTail(re, s, i + Len(FieldSeps[k])))
      [] re.kind = "litclass" ->
            IF StartsWithAt(s, i, re.lits[1])
            THEN FindAnyOf(s, re.stop, i + Len(re.lits[1]))
            ELSE 0
      [] re.kind = "run" ->
            IF StartsWithAt(s, i, re.lits[1]) THEN RunEnd(re.lits[1], s, i) ELSE 0
      [] re.kind = "lit" ->
            IF StartsWithAt(s, i, re.lits[1]) THEN i + Len(re.lits[1]) ELSE 0
      [] re.kind = "end" ->
            IF \E m \in 1..Len(re.lits) :
                  StartsWithAt(s, i, re.lits[m]) /\ i + Len(re.lits[m]) = Len(s) + 1
            THEN Len(s) + 1 ELSE 0
      [] re.kind = "attr" ->
            With(GroupSpan(re, s, i), LAMBDA g :
                IF i # 1 \/ g[1] = 0 THEN 0
                ELSE IF re.tail = ".*" THEN Len(s) + 1 ELSE g[2] + 2)
      [] OTHER -> 0

\* Pattern.match(s): a match at the beginning of s
re_match(re, s) == MatchEnd(re, s, 1) # 0

\* the replacement template "\g<1>"
GROUP1 == "\\g<1>"

Expand(repl, re, s, i) == IF repl = GROUP1 THEN Group1(re, s, i) ELSE repl

\* Pattern.sub(repl, s): every non-overlapping match, leftmost first, is
\* replaced (no pattern of the ruleset matches the empty string)
RECURSIVE SubFrom(_, _, _, _)
SubFrom(re, repl, s, i) ==
    With(MinOr0({j \in i..Len(s) : MatchEnd(re, s, j) > j}), LAMBDA j :
        IF j = 0 THEN Drop(s, i - 1)
        ELSE SubSeq(s, i, j - 1) \o Expand(repl, re, s, j)
                \o SubFrom(re, repl, s, MatchEnd(re, s, j)))

re_sub(re, repl, s) == SubFrom(re, repl, s, 1)

(***************************************************************************)
(* Configuration and rule data: unalix/_config.py and the JSON files it    *)
(* names.  The providers are in the order of the "providers" object.       *)
(***************************************************************************)
allowed_schemes == {"http", "https"}

local_domains == {"localhost", "localhost.localdomain", "ip6-localhost", "ip6-loopback"}

redirect_codes == {301, 302, 303, 307, 308}

HttpPrefix(rest) == <<"http://" \o rest, "https://" \o rest>>

\* paths_data: one file, two providers
\*   go           ^https?:\/\/go\.to        (a link wrapper, flagged complete)
\*   globalRules  ^https?:\/\/
DataProviders ==
    << [name              |-> "go",
        urlPattern        |-> Regex("prefix", HttpPrefix("go.to"), {}),
        completeProvider  |-> TRUE,
        forceRedirection  |-> FALSE,
        exceptions        |-> <<Regex("prefix", HttpPrefix("go.to/keep"), {})>>,
        redirections      |-> <<Regex("unwrap", HttpPrefix("go.to/r?u="), {"&"})>>,
        rules             |-> <<"id">>,
        referralMarketing |-> <<"tag">>,
        rawRules          |-> <<Regex("litclass", <<"/ref=">>, {"/", "?"})>>],
       [name              |-> "globalRules",
        urlPattern        |-> Regex("prefix", HttpPrefix(""), {}),
        completeProvider  |-> FALSE,
        forceRedirection  |-> FALSE,
        exceptions        |-> <<Regex("prefix", HttpPrefix("keep.io"), {})>>,
        redirections      |-> <<>>,
        rules             |-> <<"utm_source">>,
        referralMarketing |-> <<"ref">>,
        rawRules          |-> <<>>] >>

\* replacements of _config: &+ -> &, \?& -> ?, (?:\?|&)$ -> nothing
config_replacements ==
    << <<Regex("run", <<"&">>, {}), "&">>,
       <<Regex("lit", <<"?&">>, {}), "?">>,
       <<Regex("end", <<"?", "&">>, {}), "">> >>

\* paths_redirects: one file of two rules; pages of go.to/p carry their
\* target as url=...> or href=...>, pages of go.to/p/b as src=...> or href=...>
DataRedirects ==
    << [pattern   |-> Regex("prefix", HttpPrefix("go.to/p"), {}),
        redirects |-> <<Regex("attr", <<"url=">>, {">"}),
                        Regex("attr", <<"href=">>, {">"})>>],
       [pattern   |-> Regex("prefix", HttpPrefix("go.to/p/b"), {}),
        redirects |-> <<Regex("attr", <<"src=">>, {">"}),
                        Regex("attr", <<"href=">>, {">"})>>] >>

\* _regex.mime: the content types whose body is scanned
mime == Regex("prefix", <<"text/html", "text/plain", "application/xhtml+xml">>, {})

(***************************************************************************)
(* compile_patterns                                                        *)
(***************************************************************************)
SeqMap(f(_), xs) == [i \in 1..Len(xs) |-> f(xs[i])]

\* re.compile(f"{redirection}.*")
CompileRedirection(r) == [r EXCEPT !.tail = ".*"]

\* re.compile(rf"(%(?:26|23|3[Ff])|&|#|\?){common}(?:(?:=|%3[Dd])[^&]*)")
CompileField(common) == Regex("field", <<common>>, {"&"})

\* re.compile(f".*{raw_pattern}.*", flags=re.MULTILINE|re.DOTALL)
CompileBodyRedirect(r) == [r EXCEPT !.head = ".*", !.tail = ".*"]

CompileProvider(p) ==
    [pattern      |-> p.urlPattern,
     complete     |-> p.completeProvider,
     redirection  |-> p.forceRedirection,
     exceptions   |-> p.exceptions,
     redirections |-> SeqMap(CompileRedirection, p.redirections),
     rules        |-> SeqMap(CompileField, p.rules),
     referrals    |-> SeqMap(CompileField, p.referralMarketing),
     raws         |-> p.rawRules]

CompileRedirectRule(r) ==
    [pattern |-> r.pattern, redirects |-> SeqMap(CompileBodyRedirect, r.redirects)]

compile_patterns(data, repl, redir) ==
    <<SeqMap(CompileProvider, data), repl, SeqMap(CompileRedirectRule, redir)>>

\* (patterns, replacements, redirects) = compile_patterns(...), at import
patterns == compile_patterns(DataProviders, config_replacements, DataRedirects)[1]
replacements == compile_patterns(DataProviders, config_replacements, DataRedirects)[2]
redirects == compile_patterns(DataProviders, config_replacements, DataRedirects)[3]

(***************************************************************************)
(* is_private                                                              *)
(***************************************************************************)
RECURSIVE ToNat(_)
ToNat(d) == IF d = "" THEN 0 ELSE 10 * ToNat(Take(d, Len(d) - 1)) + HexVal(Char(d, Len(d)))

\* str.split(".")
RECURSIVE SplitDots(_)
SplitDots(h) ==
    With(Find(h, ".", 1), LAMBDA i :
        IF i = 0 THEN <<h>> ELSE <<Take(h, i - 1)>> \o SplitDots(Drop(h, i)))

\* ipaddress.ip_address(netloc) succeeds: four decimal octets (IPv4; the
\* model draws no IPv6 literal)
IsIPv4(netloc) ==
    With(SplitDots(netloc), LAMBDA parts :
        /\ Len(parts) = 4
        /\ \A k \in 1..4 :
              /\ parts[k] # ""
              /\ Len(parts[k]) <= 3
              /\ CharsOf(parts[k]) \subseteq CharsOf(DigitChars)
              /\ ToNat(parts[k]) <= 255)

\* IPv4Address.is_private: the private, loopback, link-local and
\* "this network" blocks
IPv4IsPrivate(netloc) ==
    With(SplitDots(netloc), LAMBDA parts :
        \/ ToNat(parts[1]) \in {0, 10, 127}
        \/ ToNat(parts[1]) = 172 /\ ToNat(parts[2]) >= 16 /\ ToNat(parts[2]) <= 31
        \/ ToNat(parts[1]) = 192 /\ ToNat(parts[2]) = 168
        \/ ToNat(parts[1]) = 169 /\ ToNat(parts[2]) = 254)

\* the value the body of is_private computes once it runs
is_private(url) ==
    With(urlparse(url).netloc, LAMBDA netloc :
        IF IsIPv4(netloc) THEN IPv4IsPrivate(netloc) ELSE netloc \in local_domains)

\* Calling an "async def" function without await does not run its body: the
\* call evaluates to a coroutine object.
Coroutine(result) == [type |-> "coroutine", result |-> result]

\* bool(v) of a Python value: a coroutine object defines neither __bool__
\* nor __len__ and is true
truth(v) == IF v.type = "coroutine" THEN TRUE ELSE v.result

(***************************************************************************)
(* parse_rules.  The operators below compute, with the result, the trace   *)
(* of the call: one event per test and per stage that was run, in the      *)
(* order the code runs them.                                               *)
(***************************************************************************)
Event(index, stage, before, after, hit) ==
    [index |-> index, stage |-> stage, before |-> before, after |-> after, hit |-> hit]

\* the string a trace leaves, given the string it started from
Out(trace, url) == IF trace = <<>> THEN url ELSE trace[Len(trace)].after

\* for r in res: url = r.sub(repl, url)
RECURSIVE SubAll(_, _, _)
SubAll(res, repl, url) ==
    IF res = <<>> THEN url ELSE SubAll(Tail(res), repl, re_sub(Head(res), repl, url))

\* the rules stage run before the redirections stage
StageOrderRulesFirst == <<"rules", "redirections", "referrals", "raws">>

\* the order of the stages of one provider
StageOrder == <<"redirections", "rules", "referrals", "raws">>

\* lines 485-490
ApplyRedirections(p, url) ==
    With(SubAll(p.redirections, GROUP1, url), LAMBDA u :
        IF u # url THEN requote_uri(unquote(u)) ELSE u)

\* one stage of a provider on url
ApplyStage(stage, p, url) ==
    CASE stage = "redirections" -> ApplyRedirections(p, url)
      [] stage = "rules"        -> SubAll(p.rules, GROUP1, url)
      [] stage = "referrals"    -> SubAll(p.referrals, GROUP1, url)
      [] stage = "raws"         -> SubAll(p.raws, "", url)

\* the referrals stage switched off by ignore_rules
StageIgnoredReferralsWithRules(stage, o) ==
    CASE stage = "redirections" -> o.ignore_redirections
      [] stage = "rules"        -> o.ignore_rules
      [] stage = "referrals"    -> o.ignore_rules
      [] stage = "raws"         -> o.ignore_raw

\* the option that switches a stage off
StageIgnored(stage, o) ==
    CASE stage = "redirections" -> o.ignore_redirections
      [] stage = "rules"        -> o.ignore_rules
      [] stage = "referrals"    -> o.allow_referral
      [] stage = "raws"         -> o.ignore_raw

RECURSIVE StagesFrom(_, _, _, _)
StagesFrom(k, i, url, o) ==
    IF k > Len(StageOrder) THEN <<>>
    ELSE IF StageIgnored(StageOrder[k], o) THEN StagesFrom(k + 1, i, url, o)
    ELSE With(ApplyStage(StageOrder[k], patterns[i], url), LAMBDA u :
            <<Event(i, StageOrder[k], url, u, u # url)>> \o StagesFrom(k + 1, i, u, o))

\* a provider whose exceptions are never looked at
ExceptionHitNever(p, url) == FALSE

\* an exception of the provider matches url (lines 478-482)
ExceptionHit(p, url) == \E k \in 1..Len(p.exceptions) : re_match(p.exceptions[k], url)

\* one iteration of the loop over patterns (lines 474-500)
ProviderTrace(i, url, o) ==
    IF o.skip_blocked /\ patterns[i].complete
    THEN <<Event(i, "blocked", url, url, TRUE)>>
    ELSE IF ~re_match(patterns[i].pattern, url)
    THEN <<Event(i, "urlPattern", url, url, FALSE)>>
    ELSE IF ~o.ignore_exceptions /\ ExceptionHit(patterns[i], url)
    THEN <<Event(i, "urlPattern", url, url, TRUE),
           Event(i, "exceptions", url, url, TRUE)>>
    ELSE <<Event(i, "urlPattern", url, url, TRUE)>>
           \o (IF o.ignore_exceptions THEN <<>>
               ELSE <<Event(i, "exceptions", url, url, FALSE)>>)
           \o StagesFrom(1, i, url, o)

\* the order in which the loop visits the providers
ProviderOrder == [i \in 1..Len(patterns) |-> i]

RECURSIVE ProvidersFrom(_, _, _)
ProvidersFrom(n, url, o) ==
    IF n > Len(ProviderOrder) THEN <<>>
    ELSE With(ProviderTrace(ProviderOrder[n], url, o), LAMBDA t :
            t \o ProvidersFrom(n + 1, Out(t, url), o))

\* lines 502-503
RECURSIVE ReplacementsFrom(_, _)
ReplacementsFrom(k, url) ==
    IF k > Len(replacements) THEN <<>>
    ELSE With(re_sub(replacements[k][1], replacements[k][2], url), LAMBDA u :
            <<Event(k, "replacement", url, u, u # url)>> \o ReplacementsFrom(k + 1, u))

\* line 470: "if skip_local and is_private(url)", is_private not awaited
SkipLocalReturns(url, o) == o.skip_local /\ truth(Coroutine(is_private(url)))

\* the replacements run on the string parse_rules was given
parse_rules_trace_raw(url, o) ==
    IF SkipLocalReturns(url, o) THEN <<>>
    ELSE ProvidersFrom(1, url, o) \o ReplacementsFrom(1, url)

parse_rules_trace(url, o) ==
    IF SkipLocalReturns(url, o) THEN <<>>
    ELSE With(ProvidersFrom(1, url, o), LAMBDA t : t \o ReplacementsFrom(1, Out(t, url)))

parse_rules(url, o) == Out(parse_rules_trace(url, o), url)

\* the keyword arguments of parse_rules
Options ==
    [allow_referral : BOOLEAN, ignore_rules : BOOLEAN, ignore_exceptions : BOOLEAN,
     ignore_raw : BOOLEAN, ignore_redirections : BOOLEAN, skip_blocked : BOOLEAN,
     skip_local : BOOLEAN]

DefaultOptions ==
    [allow_referral |-> FALSE, ignore_rules |-> FALSE, ignore_exceptions |-> FALSE,
     ignore_raw |-> FALSE, ignore_redirections |-> FALSE, skip_blocked |-> FALSE,
     skip_local |-> FALSE]

\* the keyword arguments unshort_url is called with
UnshortOptions ==
    { DefaultOptions,
      [DefaultOptions EXCEPT !.skip_local = TRUE],
      [DefaultOptions EXCEPT !.ignore_rules = TRUE],
      [DefaultOptions EXCEPT !.ignore_redirections = TRUE, !.allow_referral = TRUE],
      [DefaultOptions EXCEPT !.skip_blocked = TRUE, !.ignore_raw = TRUE],
      [DefaultOptions EXCEPT !.ignore_exceptions = TRUE] }

(***************************************************************************)
(* parse_url                                                               *)
(***************************************************************************)
\* urlparse's result with netloc and path switched when there is no netloc
SwapNetloc(p) ==
    IF p.netloc = "" THEN [p EXCEPT !.netloc = p.path, !.path = ""] ELSE p

prepend_scheme_if_needed(url, new_scheme) ==
    geturl(SwapNetloc(urlparse_default(url, new_scheme)))

\* netloc.rsplit("@", 1)[-1]
StripAuth(netloc) == Drop(netloc, RFind(netloc, "@"))

urldefragauth(url) ==
    With(SwapNetloc(urlparse(url)), LAMBDA p :
        geturl([p EXCEPT !.netloc = StripAuth(p.netloc), !.fragment = ""]))

\* netloc.encode("idna").decode("utf-8"): an ASCII name is returned as it is,
\* and the model draws ASCII names only
IdnaEncode(netloc) == netloc

\* lines 211-216: the components parse_url works on
FormatedParts(url) == urlparse(urldefragauth(prepend_scheme_if_needed(url, "http")))

\* parse_url without the test for the empty string
ParseUrlErrorNonStrOnly(url) ==
    IF ~IsStr(url) THEN "InvalidURL"
    ELSE IF FormatedParts(url).scheme \notin allowed_schemes THEN "InvalidScheme"
    ELSE None

\* parse_url testing the scheme the input has before a scheme is prepended
ParseUrlErrorRawScheme(url) ==
    IF ~IsStr(url) \/ url = "" THEN "InvalidURL"
    ELSE IF urlparse(url).scheme \notin allowed_schemes THEN "InvalidScheme"
    ELSE None

\* the exception parse_url raises on url, None when it returns
ParseUrlError(url) ==
    IF ~IsStr(url) \/ url = "" THEN "InvalidURL"
    ELSE IF FormatedParts(url).scheme \notin allowed_schemes THEN "InvalidScheme"
    ELSE None

parse_url(url) ==
    With(FormatedParts(url), LAMBDA p : geturl([p EXCEPT !.netloc = IdnaEncode(p.netloc)]))

(***************************************************************************)
(* The HTTP collaborator: the server of tests/test_url_unshort.py and, on  *)
(* other hosts, pages for the cases the fixture does not have.             *)
(***************************************************************************)
hostname == "127.2.0.1"
port == "56885"
base_url == "http://" \o hostname \o ":" \o port

Response(status, location, content_type, body) ==
    [status |-> status, location |-> location, content_type |-> content_type,
     body |-> body]

\* no status line comes back: http.client raises (RemoteDisconnected)
NoResponse == Response(0, None, None, "")

\* Server.do_GET; a path it does not know makes the handler fail before any
\* status line is written
FixtureServer(path) ==
    CASE path = "/ok" -> Response(200, None, None, "")
      [] path = "/redirect-to-tracking" ->
            Response(301, base_url \o "/ok?utm_source=127.0.0.1", None, "")
      [] path = "/absolute-redirect" ->
            Response(301, base_url \o "/redirect-to-tracking", None, "")
      [] path = "/relative-redirect" -> Response(301, "ok", None, "")
      [] path = "/root-redirect" -> Response(301, "/redirect-to-tracking", None, "")
      [] path = "/i-dont-know-its-name-redirect" ->
            Response(301, "//" \o hostname \o ":" \o port \o "/redirect-to-tracking",
                     None, "")
      [] OTHER -> NoResponse

XServer(path) ==
    CASE path = "/" -> Response(200, None, "text/html", "<p>x</p>")
      [] path = "/a/ok" -> Response(200, None, "image/png", "")
      [] path = "/a/b?x=1" -> Response(302, "ok", "text/html", "")
      [] path = "/a/b?x=/y" -> Response(302, "ok", "text/html", "")
      [] path = "/a/b?x=/ok" -> Response(200, None, "text/plain", "")
      [] path = "/nolocation" -> Response(302, None, "text/html", "")
      [] path = "/loop" -> Response(307, "/loop?id=1", "text/html", "")
      [] path = "/loop?id=1" -> Response(307, "/loop", "text/html", "")
      [] path = "/out" -> Response(301, "https://go.to/r?u=http%3A%2F%2Fx.io%2F%3Fref%3D1", None, "")
      [] path = "/ftp" -> Response(303, "https://go.to/r?u=ftp%3A%2F%2Fx.io%2F", None, "")
      [] path = "/top" -> Response(302, "http://go.to/p/both", None, "")
      [] path = "/m" -> Response(200, None, "text/html", "<meta url=http://x.io/a/ok>")
      [] OTHER -> Response(404, None, "text/html", "<p>not found</p>")

GoServer(path) ==
    CASE path = "/p" -> Response(200, None, "text/html", "<meta url=http://x.io/?utm_source=1>")
      [] path = "/p/none" -> Response(200, None, "text/html", "<p>nothing</p>")
      [] path = "/p/again" -> Response(200, None, "text/html", "<meta url=http://go.to/p>")
      [] path = "/q" -> Response(200, None, "text/html", "<meta url=http://x.io/>")
      [] path = "/p/ftp" -> Response(200, None, "text/plain", "<meta url=ftp://x.io/?&&>")
      [] path = "/p/both" -> Response(200, None, "text/html",
            "<a href=http://x.io/h?ref=1><meta url=http://x.io/u?ref=1><img src=http://x.io/s>")
      [] path = "/p/href" -> Response(200, None, "text/html",
            "<a href=http://x.io/h?ref=1><img src=http://x.io/s>")
      [] path = "/p/bsrc" -> Response(200, None, "text/html", "<img src=http://x.io/s?ref=1>")
      [] path = "/p/bx" -> Response(302, "http://x.io/m", None, "")
      [] OTHER -> Response(308, "http://x.io/", None, "")

Server(scheme, netloc, path) ==
    CASE netloc = hostname \o ":" \o port /\ scheme = "http" -> FixtureServer(path)
      [] netloc = "x.io" -> XServer(path)
      [] netloc = "go.to" -> GoServer(path)
      [] OTHER -> NoResponse

(***************************************************************************)
(* State                                                                   *)
(***************************************************************************)
VARIABLES
    pc,             \* where the call is: idle, requesting, awaiting, returned, raised
    call,           \* the operation called and its arguments
    parsed_url,     \* unshort_url: the current URL, as urlparse gives it
    trace,          \* the trace of the latest parse_rules call
    engine_calls,   \* every parse_rules call made so far: argument, result and
                    \* the number of requests issued when it was made
    requests,       \* every request issued so far
    responses,      \* every response obtained so far, with its closed/read flags
    extracted_url,  \* unshort_url's local of that name; Unbound until assigned
    result,         \* the value returned, None before the return
    error,          \* the exception raised, None when there is none
    ruleset,        \* the module globals patterns, replacements, redirects that
                    \* line 507 binds; Unbound before it has
    compiling,      \* the activation of compile_patterns: its arguments and locals
    parked          \* the locals of a second call, which is not running now

vars == <<pc, call, parsed_url, trace, engine_calls, requests, responses,
          extracted_url, result, error, ruleset, compiling, parked>>

\* what a call of clear_url or unshort_url does not write
shared == <<ruleset, compiling, parked>>

\* a local variable that has not been assigned: reading it raises NameError
Unbound == "<unbound>"

NoURL == urlparse("")

NoCall == [op |-> "none", url |-> None, parse_documents |-> FALSE, kwargs |-> DefaultOptions]

\* the module globals once line 507 has run, and before
Bound(t) == [bound |-> TRUE, patterns |-> t[1], replacements |-> t[2], redirects |-> t[3]]
NotBound == [bound |-> FALSE, patterns |-> <<>>, replacements |-> <<>>, redirects |-> <<>>]

\* the arguments of compile_patterns; data and replacements may be something
\* that is not a list
ListArg(items) == [list |-> TRUE, items |-> items]
NotAList == [list |-> FALSE, items |-> <<>>]
CompileArgs(data, repl, redir) == [data |-> data, replacements |-> repl, redirects |-> redir]

\* compile_patterns' locals; phase: none (not running), data, redirects, raised
Activation(phase, args) ==
    [phase |-> phase, args |-> args, file |-> 1, files_read |-> 0,
     compiled_data |-> <<>>, compiled_replacements |-> <<>>, compiled_redirects |-> <<>>]

\* compile_patterns is not running
NoCompile == Activation("none", CompileArgs(NotAList, NotAList, <<>>))

\* the locals of a call that has not begun
FreshLocals ==
    [pc |-> "idle", call |-> NoCall, parsed_url |-> NoURL, trace |-> <<>>,
     engine_calls |-> <<>>, requests |-> <<>>, responses |-> <<>>,
     extracted_url |-> Unbound, result |-> None, error |-> None]

(***************************************************************************)
(* Bounds and inputs                                                       *)
(***************************************************************************)
\* the number of requests one unshort_url call is followed for
MaxHops == 5

\* the URLs clear_url is called with
ClearInputs ==
    { None, "", "ftp://example.com", "x.io", "x.io:80/a", "HTTP://x.io/A?ref=1",
      "https://x.io/x?utm_source=foo&id=1",
      "http://user:pw@x.io/a?ref=1&b=2#frag",
      "http://go.to/r?u=http%3A%2F%2Fx.io%2Fa%20b%3Fid%3D1%26utm_source%3D2&tag=3",
      "http://go.to/r?u=http%3A%2F%2Fgo.to%2Fr%3Fu%3Dhttp%253A%252F%252Fx.io%252F",
      "http://go.to/r?u=http%3A%2F%2Fkeep.io%2F%3Futm_source%3D1",
      "http://go.to/a/ref=1?id=2&tag=3&ref=4&utm_source=5&z=6",
      "http://go.to/keep/ref=1?id=2&utm_source=5",
      "http://keep.io/?utm_source=1&&z=2",
      "http://x.io/?&a=1&&b=2&",
      "http://127.0.0.1/?utm_source=1",
      "http://localhost/a?ref=1",
      base_url \o "/ok?utm_source=127.0.0.1" }

\* the URLs unshort_url is called with
UnshortInputs ==
    { None, "", "ftp://example.com",
      base_url \o "/absolute-redirect",
      base_url \o "/relative-redirect",
      base_url \o "/root-redirect",
      base_url \o "/i-dont-know-its-name-redirect",
      base_url \o "/missing",
      "http://x.io/a/b?x=1", "http://x.io/a/b?x=/y",
      "http://x.io/nolocation", "http://x.io/loop", "x.io/out", "x.io/ftp",
      "http://x.io/?utm_source=1", "http://x.io/gone",
      "http://go.to/p", "http://go.to/p/none", "http://go.to/p/ftp", "http://go.to/p/again",
      "http://go.to/q", "https://go.to/r?u=http%3A%2F%2Fx.io%2Fa%2Fok",
      "http://go.to/p/both", "http://go.to/p/href", "http://go.to/p/bsrc",
      "http://go.to/p/bx", "http://x.io/top",
      "https://go.to/r?u=ftp%3A%2F%2Fx.io%2F", "https://go.to/r?u=x.io%2Fa" }

(***************************************************************************)
(* clear_url                                                               *)
(***************************************************************************)
Init ==
    /\ pc = "idle"
    /\ call = NoCall
    /\ parsed_url = NoURL
    /\ trace = <<>>
    /\ engine_calls = <<>>
    /\ requests = <<>>
    /\ responses = <<>>
    /\ extracted_url = Unbound
    /\ result = None
    /\ error = None
    /\ ruleset = Bound(<<patterns, replacements, redirects>>)
    /\ compiling = NoCompile
    /\ parked = FreshLocals

EngineCall(arg, t) == [arg |-> arg, result |-> Out(t, arg), hop |-> Len(requests)]

ClearUrl(url, o) ==
    /\ pc = "idle"
    /\ call' = [op |-> "clear_url", url |-> url, parse_documents |-> FALSE, kwargs |-> o]
    /\ IF ParseUrlError(url) # None
       THEN /\ pc' = "raised"
            /\ error' = ParseUrlError(url)
            /\ UNCHANGED <<trace, engine_calls, result>>
       ELSE \E formated_url \in {parse_url(url)} :
            \E t \in {parse_rules_trace(formated_url, o)} :
                /\ pc' = "returned"
                /\ trace' = t
                /\ engine_calls' = <<EngineCall(formated_url, t)>>
                /\ result' = Out(t, formated_url)
                /\ UNCHANGED error
    /\ UNCHANGED <<parsed_url, requests, responses, extracted_url>>
    /\ UNCHANGED shared

(***************************************************************************)
(* unshort_url                                                             *)
(***************************************************************************)
\* lines 296-298
UnshortStart(url, parse_documents, o) ==
    /\ pc = "idle"
    /\ call' = [op |-> "unshort_url", url |-> url,
                parse_documents |-> parse_documents, kwargs |-> o]
    /\ IF ParseUrlError(url) # None
       THEN /\ pc' = "raised"
            /\ error' = ParseUrlError(url)
            /\ UNCHANGED <<parsed_url, trace, engine_calls>>
       ELSE \E formated_url \in {parse_url(url)} :
            \E t \in {parse_rules_trace(formated_url, o)} :
                /\ pc' = "requesting"
                /\ trace' = t
                /\ engine_calls' = <<EngineCall(formated_url, t)>>
                /\ parsed_url' = urlparse(Out(t, formated_url))
                /\ UNCHANGED error
    /\ UNCHANGED <<requests, responses, extracted_url, result>>
    /\ UNCHANGED shared

\* the local "path" after lines 304-305
LoopPath(p) == IF p.query # "" THEN p.path \o "?" \o p.query ELSE p.path

\* the request target http.client writes: putrequest sends "/" for ""
RequestTarget(p) == IF LoopPath(p) = "" THEN "/" ELSE LoopPath(p)

\* a loop that gives up after three requests
SendRequestHopLimit ==
    /\ pc = "requesting"
    /\ Len(requests) < MaxHops
    /\ IF parsed_url.scheme \notin {"http", "https"}
       THEN /\ pc' = "raised"
            /\ error' = "InvalidScheme"
            /\ UNCHANGED requests
       ELSE IF Len(requests) >= 3
       THEN /\ pc' = "raised"
            /\ error' = "TooManyRedirects"
            /\ UNCHANGED requests
       ELSE /\ pc' = "awaiting"
            /\ requests' = Append(requests,
                    [scheme |-> parsed_url.scheme, netloc |-> parsed_url.netloc,
                     target |-> RequestTarget(parsed_url)])
            /\ UNCHANGED error
    /\ UNCHANGED <<call, parsed_url, trace, engine_calls, responses,
                   extracted_url, result>>
    /\ UNCHANGED shared

\* a connection made for any scheme
SendRequestAnyScheme ==
    /\ pc = "requesting"
    /\ Len(requests) < MaxHops
    /\ pc' = "awaiting"
    /\ requests' = Append(requests,
            [scheme |-> parsed_url.scheme, netloc |-> parsed_url.netloc,
             target |-> RequestTarget(parsed_url)])
    /\ UNCHANGED <<call, parsed_url, trace, engine_calls, responses,
                   extracted_url, result, error>>
    /\ UNCHANGED shared

\* lines 301-307: creat_connection, then the request
SendRequest ==
    /\ pc = "requesting"
    /\ Len(requests) < MaxHops
    /\ IF parsed_url.scheme \notin {"http", "https"}
       THEN /\ pc' = "raised"
            /\ error' = "InvalidScheme"
            /\ UNCHANGED requests
       ELSE /\ pc' = "awaiting"
            /\ requests' = Append(requests,
                    [scheme |-> parsed_url.scheme, netloc |-> parsed_url.netloc,
                     target |-> RequestTarget(parsed_url)])
            /\ UNCHANGED error
    /\ UNCHANGED <<call, parsed_url, trace, engine_calls, responses,
                   extracted_url, result>>
    /\ UNCHANGED shared

\* connection.getresponse() for the request just sent
Pending ==
    Server(requests[Len(requests)].scheme, requests[Len(requests)].netloc,
           requests[Len(requests)].target)

\* lines 308-313: the response object; it is closed at once unless the call
\* parses documents.  url is the current URL it was fetched for.
Received(r) ==
    [status |-> r.status, location |-> r.location, content_type |-> r.content_type,
     body |-> r.body, closed |-> ~call.parse_documents, read |-> FALSE,
     url |-> geturl(parsed_url)]

IsRedirect(r) == r.status \in redirect_codes

\* getresponse() raises: nothing was received
TransportError ==
    /\ pc = "awaiting"
    /\ Pending = NoResponse
    /\ pc' = "raised"
    /\ error' = "RemoteDisconnected"
    /\ UNCHANGED <<call, parsed_url, trace, engine_calls, requests, responses,
                   extracted_url, result>>
    /\ UNCHANGED shared

\* the next URL becomes the current one as it is
FollowUncleaned(redirect_url) ==
    /\ trace' = <<>>
    /\ engine_calls' = Append(engine_calls, EngineCall(redirect_url, <<>>))
    /\ parsed_url' = urlparse(redirect_url)
    /\ pc' = "requesting"
    /\ responses' = Append(responses, Received(Pending))
    /\ UNCHANGED <<call, requests, extracted_url, result, error>>
    /\ UNCHANGED shared

\* parse_rules on the next URL, which becomes the current one
Follow(redirect_url) ==
    /\ \E t \in {parse_rules_trace(redirect_url, call.kwargs)} :
          /\ trace' = t
          /\ engine_calls' = Append(engine_calls, EngineCall(redirect_url, t))
          /\ parsed_url' = urlparse(Out(t, redirect_url))
    /\ pc' = "requesting"
    /\ responses' = Append(responses, Received(Pending))
    /\ UNCHANGED <<call, requests, extracted_url, result, error>>
    /\ UNCHANGED shared

\* the Location alone, without the authority of the current URL
RootRedirectUrlNoAuthority(p, location) == urlunparse(p.scheme, "", location, "", "", "")

\* the URL built in lines 320-321
RootRedirectUrl(p, location) == urlunparse(p.scheme, p.netloc, location, "", "", "")

\* the URL built in lines 325-326
RelativeRedirectUrl(p, location) ==
    urlunparse(p.scheme, p.netloc, pathjoin(dirname(LoopPath(p)), location), "", "", "")

\* a redirect without Location taken as one more turn of the loop
RedirectWithoutLocationRetried ==
    /\ pc = "awaiting"
    /\ Pending # NoResponse
    /\ IsRedirect(Pending)
    /\ Pending.location = None
    /\ pc' = "requesting"
    /\ responses' = Append(responses, Received(Pending))
    /\ UNCHANGED <<call, parsed_url, trace, engine_calls, requests,
                   extracted_url, result, error>>
    /\ UNCHANGED shared

\* lines 316-317: location.startswith on None
RedirectWithoutLocation ==
    /\ pc = "awaiting"
    /\ Pending # NoResponse
    /\ IsRedirect(Pending)
    /\ Pending.location = None
    /\ pc' = "raised"
    /\ error' = "AttributeError"
    /\ responses' = Append(responses, Received(Pending))
    /\ UNCHANGED <<call, parsed_url, trace, engine_calls, requests,
                   extracted_url, result>>
    /\ UNCHANGED shared

\* lines 317-319
RedirectAbsolute ==
    /\ pc = "awaiting"
    /\ Pending # NoResponse
    /\ IsRedirect(Pending)
    /\ Pending.location # None
    /\ StartsWith(Pending.location, "http://") \/ StartsWith(Pending.location, "https://")
    /\ Follow(Pending.location)

\* lines 320-323
RedirectRoot ==
    /\ pc = "awaiting"
    /\ Pending # NoResponse
    /\ IsRedirect(Pending)
    /\ Pending.location # None
    /\ ~(StartsWith(Pending.location, "http://") \/ StartsWith(Pending.location, "https://"))
    /\ StartsWith(Pending.location, "/")
    /\ Follow(RootRedirectUrl(parsed_url, Pending.location))

\* lines 324-328
RedirectRelative ==
    /\ pc = "awaiting"
    /\ Pending # NoResponse
    /\ IsRedirect(Pending)
    /\ Pending.location # None
    /\ ~(StartsWith(Pending.location, "http://") \/ StartsWith(Pending.location, "https://"))
    /\ ~StartsWith(Pending.location, "/")
    /\ Follow(RelativeRedirectUrl(parsed_url, Pending.location))

(***************************************************************************)
(* extract_url and the rest of the loop                                    *)
(***************************************************************************)
\* a redirect rule whose pattern matches url: extract_url reads and closes
\* the response for the first of them
SomeRedirectRule(url) == \E i \in 1..Len(redirects) : re_match(redirects[i].pattern, url)

\* the capture group of the last body pattern that matches
RECURSIVE FirstBodyMatchLast(_, _, _, _)
FirstBodyMatchLast(i, k, document, url) ==
    IF i > Len(redirects) THEN None
    ELSE IF ~re_match(redirects[i].pattern, url) \/ k > Len(redirects[i].redirects)
    THEN FirstBodyMatchLast(i + 1, 1, document, url)
    ELSE With(FirstBodyMatchLast(i, k + 1, document, url), LAMBDA later :
            IF later # None THEN later
            ELSE IF re_match(redirects[i].redirects[k], document)
            THEN Group1(redirects[i].redirects[k], document, 1)
            ELSE None)

\* the first capture group extract_url finds, None when there is none: the
\* rules in load order, the body patterns of a rule in list order
RECURSIVE FirstBodyMatch(_, _, _, _)
FirstBodyMatch(i, k, document, url) ==
    IF i > Len(redirects) THEN None
    ELSE IF ~re_match(redirects[i].pattern, url) \/ k > Len(redirects[i].redirects)
    THEN FirstBodyMatch(i + 1, 1, document, url)
    ELSE IF re_match(redirects[i].redirects[k], document)
    THEN Group1(redirects[i].redirects[k], document, 1)
    ELSE FirstBodyMatch(i, k + 1, document, url)

\* lines 329 and 311: mime.match on a header that is not there
ContentTypeMissing ==
    /\ pc = "awaiting"
    /\ Pending # NoResponse
    /\ ~IsRedirect(Pending)
    /\ call.parse_documents
    /\ Pending.content_type = None
    /\ pc' = "raised"
    /\ error' = "TypeError"
    /\ responses' = Append(responses, Received(Pending))
    /\ UNCHANGED <<call, parsed_url, trace, engine_calls, requests,
                   extracted_url, result>>
    /\ UNCHANGED shared

\* the body branch entered whatever parse_documents is
ExtractBodyAlways ==
    /\ pc = "awaiting"
    /\ Pending # NoResponse
    /\ ~IsRedirect(Pending)
    /\ Pending.content_type # None
    /\ re_match(mime, Pending.content_type)
    /\ extracted_url = Unbound
    /\ \E url \in {geturl(parsed_url)} :
       \E found \in {FirstBodyMatch(1, 1, Pending.body, url)} :
          /\ responses' = Append(responses,
                IF SomeRedirectRule(url)
                THEN [Received(Pending) EXCEPT !.closed = TRUE, !.read = TRUE]
                ELSE Received(Pending))
          /\ pc' = "requesting"
          /\ IF found # None
             THEN \E t \in {parse_rules_trace(found, call.kwargs)} :
                     /\ extracted_url' = Out(t, found)
                     /\ trace' = t
                     /\ engine_calls' = Append(engine_calls, EngineCall(found, t))
                     /\ parsed_url' = urlparse(Out(t, found))
             ELSE /\ extracted_url' = None
                  /\ UNCHANGED <<trace, engine_calls, parsed_url>>
    /\ UNCHANGED <<call, requests, result, error>>
    /\ UNCHANGED shared

\* extract_url called for every document, whether extracted_url is bound or not
ExtractBodyEachResponse ==
    /\ pc = "awaiting"
    /\ Pending # NoResponse
    /\ ~IsRedirect(Pending)
    /\ call.parse_documents
    /\ Pending.content_type # None
    /\ re_match(mime, Pending.content_type)
    /\ \E url \in {geturl(parsed_url)} :
       \E found \in {FirstBodyMatch(1, 1, Pending.body, url)} :
          /\ responses' = Append(responses,
                IF SomeRedirectRule(url)
                THEN [Received(Pending) EXCEPT !.closed = TRUE, !.read = TRUE]
                ELSE Received(Pending))
          /\ pc' = "requesting"
          /\ IF found # None
             THEN \E t \in {parse_rules_trace(found, call.kwargs)} :
                     /\ extracted_url' = Out(t, found)
                     /\ trace' = t
                     /\ engine_calls' = Append(engine_calls, EngineCall(found, t))
                     /\ parsed_url' = urlparse(Out(t, found))
             ELSE /\ extracted_url' = None
                  /\ UNCHANGED <<trace, engine_calls, parsed_url>>
    /\ UNCHANGED <<call, requests, result, error>>
    /\ UNCHANGED shared

\* lines 330-336: extracted_url is not bound yet, extract_url is called; with
\* a URL the loop continues from it, with None control leaves the try
\* statement and reaches the end of the loop body
ExtractBody ==
    /\ pc = "awaiting"
    /\ Pending # NoResponse
    /\ ~IsRedirect(Pending)
    /\ call.parse_documents
    /\ Pending.content_type # None
    /\ re_match(mime, Pending.content_type)
    /\ extracted_url = Unbound
    /\ \E url \in {geturl(parsed_url)} :
       \E found \in {FirstBodyMatch(1, 1, Pending.body, url)} :
          /\ responses' = Append(responses,
                IF SomeRedirectRule(url)
                THEN [Received(Pending) EXCEPT !.closed = TRUE, !.read = TRUE]
                ELSE Received(Pending))
          /\ pc' = "requesting"
          /\ IF found # None
             THEN \E t \in {parse_rules_trace(found, call.kwargs)} :
                     /\ extracted_url' = Out(t, found)
                     /\ trace' = t
                     /\ engine_calls' = Append(engine_calls, EngineCall(found, t))
                     /\ parsed_url' = urlparse(Out(t, found))
             ELSE /\ extracted_url' = None
                  /\ UNCHANGED <<trace, engine_calls, parsed_url>>
    /\ UNCHANGED <<call, requests, result, error>>
    /\ UNCHANGED shared

\* the return without lines 342-343
ReturnUnclosed ==
    /\ pc = "awaiting"
    /\ Pending # NoResponse
    /\ ~IsRedirect(Pending)
    /\ \/ ~call.parse_documents
       \/ /\ Pending.content_type # None
          /\ ~re_match(mime, Pending.content_type)
       \/ /\ Pending.content_type # None
          /\ re_match(mime, Pending.content_type)
          /\ extracted_url # Unbound
    /\ responses' = Append(responses, Received(Pending))
    /\ result' = geturl(parsed_url)
    /\ pc' = "returned"
    /\ UNCHANGED <<call, parsed_url, trace, engine_calls, requests,
                   extracted_url, error>>
    /\ UNCHANGED shared

\* the two "break" of lines 338 and 340, then lines 342-345
Return ==
    /\ pc = "awaiting"
    /\ Pending # NoResponse
    /\ ~IsRedirect(Pending)
    /\ \/ ~call.parse_documents
       \/ /\ Pending.content_type # None
          /\ ~re_match(mime, Pending.content_type)
       \/ /\ Pending.content_type # None
          /\ re_match(mime, Pending.content_type)
          /\ extracted_url # Unbound
    /\ responses' = Append(responses, [Received(Pending) EXCEPT !.closed = TRUE])
    /\ result' = geturl(parsed_url)
    /\ pc' = "returned"
    /\ UNCHANGED <<call, parsed_url, trace, engine_calls, requests,
                   extracted_url, error>>
    /\ UNCHANGED shared

(***************************************************************************)
(* The import of the module: line 507 runs compile_patterns and binds      *)
(* patterns, replacements and redirects.                                   *)
(***************************************************************************)
\* a file of paths_data or paths_redirects: json.loads raises on its text,
\* or gives the entries
JsonFile(entries) == [json |-> TRUE, entries |-> entries]
MalformedFile == [json |-> FALSE, entries |-> <<>>]

\* a pattern re.compile raises re.error on
InvalidRegex == Regex("invalid", <<>>, {})

ReCompileRaises(r) == r.kind = "invalid"

SomeInvalid(rs) == \E k \in 1..Len(rs) : ReCompileRaises(rs[k])

\* lines 380-401 raise for provider p
ProviderRaises(p) ==
    \/ ReCompileRaises(p.urlPattern)
    \/ SomeInvalid(p.exceptions)
    \/ SomeInvalid(p.redirections)
    \/ SomeInvalid(p.rawRules)

\* lines 410-416 raise for rule r
RedirectRuleRaises(r) == ReCompileRaises(r.pattern) \/ SomeInvalid(r.redirects)

\* the arguments line 507 passes, in the layouts and with the defects drawn
GoodData == ListArg(<<JsonFile(DataProviders)>>)
GoodReplacements == ListArg(config_replacements)
GoodRedirects == <<JsonFile(DataRedirects)>>

BadProvider == [DataProviders[2] EXCEPT !.exceptions = <<InvalidRegex>>]

ImportInputs ==
    { CompileArgs(GoodData, GoodReplacements, GoodRedirects),
      CompileArgs(ListArg(<<JsonFile(<<DataProviders[1]>>), JsonFile(<<DataProviders[2]>>)>>),
                  GoodReplacements, GoodRedirects),
      CompileArgs(ListArg(<<>>), GoodReplacements, GoodRedirects),
      CompileArgs(NotAList, GoodReplacements, GoodRedirects),
      CompileArgs(GoodData, ListArg(<<>>), GoodRedirects),
      CompileArgs(GoodData, NotAList, GoodRedirects),
      CompileArgs(ListArg(<<MalformedFile>>), NotAList, GoodRedirects),
      CompileArgs(ListArg(<<MalformedFile, JsonFile(DataProviders)>>),
                  GoodReplacements, GoodRedirects),
      CompileArgs(ListArg(<<JsonFile(<<DataProviders[1]>>), MalformedFile>>),
                  GoodReplacements, GoodRedirects),
      CompileArgs(ListArg(<<JsonFile(<<DataProviders[1], BadProvider>>)>>),
                  GoodReplacements, GoodRedirects),
      CompileArgs(ListArg(<<JsonFile(<<DataProviders[1]>>), JsonFile(<<BadProvider>>)>>),
                  GoodReplacements, GoodRedirects),
      CompileArgs(GoodData, ListArg(<<config_replacements[1], <<InvalidRegex, "">>>>),
                  GoodRedirects),
      CompileArgs(GoodData, GoodReplacements, <<MalformedFile>>),
      CompileArgs(GoodData, GoodReplacements,
                  <<JsonFile(DataRedirects),
                    JsonFile(<<[DataRedirects[1] EXCEPT !.redirects = <<InvalidRegex>>]>>)>>) }

\* the exception leaves compile_patterns and the import
ImportRaises(exception, activation) ==
    /\ pc' = "import_failed"
    /\ error' = exception
    /\ compiling' = [activation EXCEPT !.phase = "raised"]
    /\ UNCHANGED <<call, parsed_url, trace, engine_calls, requests, responses,
                   extracted_url, result, ruleset, parked>>

ImportGoesOn(activation) ==
    /\ compiling' = activation
    /\ UNCHANGED <<pc, call, parsed_url, trace, engine_calls, requests, responses,
                   extracted_url, result, error, ruleset, parked>>

\* lines 367-375
CompileStart(args) ==
    /\ pc = "importing"
    /\ compiling.phase = "none"
    /\ IF ~args.data.list \/ args.data.items = <<>>
       THEN ImportRaises("InvalidList", Activation("raised", args))
       ELSE IF ~args.replacements.list \/ args.replacements.items = <<>>
       THEN ImportRaises("InvalidList", Activation("raised", args))
       ELSE ImportGoesOn(Activation("data", args))

\* the providers of a file up to the first that raises
ValidPrefix(ps) ==
    With(MinOr0({k \in 1..Len(ps) : ProviderRaises(ps[k])}), LAMBDA bad :
        IF bad = 0 THEN ps ELSE SubSeq(ps, 1, bad - 1))

\* a data file that cannot be read is left out and the loop goes on
CompileDataFileSkipping ==
    /\ pc = "importing"
    /\ compiling.phase = "data"
    /\ compiling.file <= Len(compiling.args.data.items)
    /\ \E f \in {compiling.args.data.items[compiling.file]} :
       \E read \in {[compiling EXCEPT !.files_read = @ + 1, !.file = @ + 1]} :
          ImportGoesOn([read EXCEPT !.compiled_data =
                            @ \o SeqMap(CompileProvider, ValidPrefix(f.entries))])

\* lines 377-401: one turn of "for filename in data"
CompileDataFile ==
    /\ pc = "importing"
    /\ compiling.phase = "data"
    /\ compiling.file <= Len(compiling.args.data.items)
    /\ \E f \in {compiling.args.data.items[compiling.file]} :
       \E read \in {[compiling EXCEPT !.files_read = @ + 1]} :
       \E done \in {[read EXCEPT !.compiled_data =
                            @ \o SeqMap(CompileProvider, ValidPrefix(f.entries))]} :
          IF ~f.json THEN ImportRaises("JSONDecodeError", read)
          ELSE IF \E k \in 1..Len(f.entries) : ProviderRaises(f.entries[k])
          THEN ImportRaises("re.error", done)
          ELSE ImportGoesOn([done EXCEPT !.file = @ + 1])

\* lines 403-404
CompileReplacements ==
    /\ pc = "importing"
    /\ compiling.phase = "data"
    /\ compiling.file > Len(compiling.args.data.items)
    /\ \E pairs \in {compiling.args.replacements.items} :
       \E bad \in {MinOr0({k \in 1..Len(pairs) : ReCompileRaises(pairs[k][1])})} :
          IF bad # 0
          THEN ImportRaises("re.error",
                   [compiling EXCEPT !.compiled_replacements = SubSeq(pairs, 1, bad - 1)])
          ELSE ImportGoesOn([compiling EXCEPT !.compiled_replacements = pairs,
                                              !.phase = "redirects", !.file = 1])

\* lines 406-416: one turn of "for filename in redirects"
CompileRedirectFile ==
    /\ pc = "importing"
    /\ compiling.phase = "redirects"
    /\ compiling.file <= Len(compiling.args.redirects)
    /\ \E f \in {compiling.args.redirects[compiling.file]} :
       \E read \in {[compiling EXCEPT !.files_read = @ + 1]} :
       \E bad \in {MinOr0({k \in 1..Len(f.entries) : RedirectRuleRaises(f.entries[k])})} :
          IF ~f.json THEN ImportRaises("JSONDecodeError", read)
          ELSE IF bad # 0
          THEN ImportRaises("re.error",
                   [read EXCEPT !.compiled_redirects =
                        @ \o SeqMap(CompileRedirectRule, SubSeq(f.entries, 1, bad - 1))])
          ELSE ImportGoesOn([read EXCEPT !.file = @ + 1, !.compiled_redirects =
                                 @ \o SeqMap(CompileRedirectRule, f.entries)])

\* line 418, then the assignment of line 507
CompileReturn ==
    /\ pc = "importing"
    /\ compiling.phase = "redirects"
    /\ compiling.file > Len(compiling.args.redirects)
    /\ ruleset' = Bound(<<compiling.compiled_data, compiling.compiled_replacements,
                          compiling.compiled_redirects>>)
    /\ compiling' = NoCompile
    /\ pc' = "idle"
    /\ UNCHANGED <<call, parsed_url, trace, engine_calls, requests, responses,
                   extracted_url, result, error, parked>>

(***************************************************************************)
(* Two calls at once: the thread that runs one call is suspended between   *)
(* two steps and the thread of the other call runs.                        *)
(***************************************************************************)
\* the locals of the running call
Locals ==
    [pc |-> pc, call |-> call, parsed_url |-> parsed_url, trace |-> trace,
     engine_calls |-> engine_calls, requests |-> requests, responses |-> responses,
     extracted_url |-> extracted_url, result |-> result, error |-> error]

\* extracted_url kept in a module global, which both calls read and write
SwitchSharingExtractedUrl ==
    /\ parked' = [Locals EXCEPT !.extracted_url = Unbound]
    /\ pc' = parked.pc
    /\ call' = parked.call
    /\ parsed_url' = parked.parsed_url
    /\ trace' = parked.trace
    /\ engine_calls' = parked.engine_calls
    /\ requests' = parked.requests
    /\ responses' = parked.responses
    /\ result' = parked.result
    /\ error' = parked.error
    /\ UNCHANGED <<extracted_url, ruleset, compiling>>

\* the running call is suspended with its locals and the other call runs on
\* with its own
Switch ==
    /\ parked' = Locals
    /\ pc' = parked.pc
    /\ call' = parked.call
    /\ parsed_url' = parked.parsed_url
    /\ trace' = parked.trace
    /\ engine_calls' = parked.engine_calls
    /\ requests' = parked.requests
    /\ responses' = parked.responses
    /\ extracted_url' = parked.extracted_url
    /\ result' = parked.result
    /\ error' = parked.error
    /\ UNCHANGED <<ruleset, compiling>>

(***************************************************************************)
(* Specification                                                           *)
(***************************************************************************)
Next ==
    \/ \E url \in ClearInputs, o \in Options : ClearUrl(url, o)
    \/ \E url \in UnshortInputs, pd \in BOOLEAN, o \in UnshortOptions : UnshortStart(url, pd, o)
    \/ SendRequest
    \/ TransportError
    \/ RedirectWithoutLocation
    \/ RedirectAbsolute
    \/ RedirectRoot
    \/ RedirectRelative
    \/ ContentTypeMissing
    \/ ExtractBody
    \/ Return

Spec == Init /\ [][Next]_vars

\* the import of the module, then the calls
InitImport ==
    /\ pc = "importing"
    /\ call = NoCall
    /\ parsed_url = NoURL
    /\ trace = <<>>
    /\ engine_calls = <<>>
    /\ requests = <<>>
    /\ responses = <<>>
    /\ extracted_url = Unbound
    /\ result = None
    /\ error = None
    /\ ruleset = NotBound
    /\ compiling = NoCompile
    /\ parked = FreshLocals

NextImport ==
    \/ \E args \in ImportInputs : CompileStart(args)
    \/ CompileDataFile
    \/ CompileReplacements
    \/ CompileRedirectFile
    \/ CompileReturn
    \/ Next

SpecImport == InitImport /\ [][NextImport]_vars

\* two calls, interleaved step by step
ConcurrentClearInputs == {"http://go.to/a/ref=1?id=2&tag=3&ref=4&utm_source=5&z=6", None}

ConcurrentUnshortInputs ==
    { base_url \o "/root-redirect", base_url \o "/missing", "http://x.io/a/b?x=1",
      "http://x.io/nolocation", "http://go.to/p", "http://go.to/p/none" }

NextConcurrent ==
    \/ \E url \in ConcurrentClearInputs : ClearUrl(url, DefaultOptions)
    \/ \E url \in ConcurrentUnshortInputs, pd \in BOOLEAN :
          UnshortStart(url, pd, DefaultOptions)
    \/ SendRequest
    \/ TransportError
    \/ RedirectWithoutLocation
    \/ RedirectAbsolute
    \/ RedirectRoot
    \/ RedirectRelative
    \/ ContentTypeMissing
    \/ ExtractBody
    \/ Return
    \/ Switch

SpecConcurrent == Init /\ [][NextConcurrent]_vars

(***************************************************************************)
(* Properties of unshort_url's redirect handling                           *)
(***************************************************************************)
\* response i of the call is a redirect that carries a Location
RedirectHop(i) ==
    /\ i \in 1..Len(responses)
    /\ IsRedirect(responses[i])
    /\ responses[i].location # None

IsAbsolute(location) == StartsWith(location, "http://") \/ StartsWith(location, "https://")

AbsoluteHop(i) == RedirectHop(i) /\ IsAbsolute(responses[i].location)

ProtocolRelativeHop(i) == RedirectHop(i) /\ StartsWith(responses[i].location, "//")

RootHop(i) ==
    /\ RedirectHop(i)
    /\ StartsWith(responses[i].location, "/")
    /\ ~StartsWith(responses[i].location, "//")

RelativeHop(i) ==
    /\ RedirectHop(i)
    /\ ~IsAbsolute(responses[i].location)
    /\ ~StartsWith(responses[i].location, "/")

\* the request that fetches the URL string url
RequestFor(url) ==
    [scheme |-> urlparse(url).scheme, netloc |-> urlparse(url).netloc,
     target |-> RequestTarget(urlparse(url))]

\* the path component of the URL request i was sent for
PathOfRequest(i) == SplitFirst(requests[i].target, "?")[1]

\* next is what the rule engine was given while response i was handled; its
\* result is the current URL from then on and is what request i + 1 asks for
HopFollows(i, next) ==
    \E k \in 1..Len(engine_calls) :
        /\ engine_calls[k].hop = i
        /\ engine_calls[k].arg = next
        /\ engine_calls[k].result = parse_rules(next, call.kwargs)
        /\ (i = Len(requests) /\ pc = "requesting")
              => parsed_url = urlparse(engine_calls[k].result)
        /\ i < Len(requests) => requests[i + 1] = RequestFor(engine_calls[k].result)

\* the call unshort_url(url), every other argument at its default, has ended
EndedDefault(url) ==
    /\ call.op = "unshort_url"
    /\ call.url = url
    /\ ~call.parse_documents
    /\ call.kwargs = DefaultOptions
    /\ pc \in {"returned", "raised"}

\* C1: in unshort_url every absolute Location of a redirect goes through
\* parse_rules before it becomes the current URL and before it is requested,
\* and the value returned is the cleaned URL the first non-redirect response
\* was fetched for; the fixture's /absolute-redirect ends at /ok without the
\* tracking query.
C1_AbsoluteRedirectCleaned ==
    call.op = "unshort_url" =>
        /\ \A i \in 1..Len(responses) :
              AbsoluteHop(i) => HopFollows(i, responses[i].location)
        /\ (pc = "returned" /\ \A i \in 1..(Len(responses) - 1) : AbsoluteHop(i))
              => /\ result = geturl(urlparse(engine_calls[Len(engine_calls)].result))
                 /\ requests[Len(requests)]
                        = RequestFor(engine_calls[Len(engine_calls)].result)
        /\ EndedDefault(base_url \o "/absolute-redirect")
              => pc = "returned" /\ result = base_url \o "/ok"

C1_Witness ==
    /\ EndedDefault(base_url \o "/absolute-redirect")
    /\ pc = "returned"
    /\ Len(responses) = 3
    /\ AbsoluteHop(1)
    /\ AbsoluteHop(2)
    /\ engine_calls[3].arg = base_url \o "/ok?utm_source=127.0.0.1"
    /\ result = base_url \o "/ok"

\* C2: a Location that starts with "//" is resolved as a protocol-relative
\* reference: scheme of the current URL, authority and path from the text
\* after "//"; the fixture's //host:port/redirect-to-tracking is requested
\* as http://host:port/redirect-to-tracking and the call returns /ok.
C2_ProtocolRelativeRedirect ==
    call.op = "unshort_url" =>
        /\ \A i \in 1..Len(responses) :
              ProtocolRelativeHop(i)
                 => HopFollows(i, requests[i].scheme \o ":" \o responses[i].location)
        /\ EndedDefault(base_url \o "/i-dont-know-its-name-redirect")
              => pc = "returned" /\ result = base_url \o "/ok"

\* C3: a Location that is neither absolute nor starts with "/" replaces the
\* last segment of the current URL's path; the directory comes from the path
\* component only, whatever the query string of the current URL is.
C3_RelativeRedirect ==
    call.op = "unshort_url" =>
        /\ \A i \in 1..Len(responses) :
              RelativeHop(i)
                 => HopFollows(i, urlunparse(requests[i].scheme, requests[i].netloc,
                        pathjoin(dirname(PathOfRequest(i)), responses[i].location),
                        "", "", ""))
        /\ EndedDefault(base_url \o "/relative-redirect")
              => pc = "returned" /\ result = base_url \o "/ok"

\* C4: a Location that starts with a single "/" keeps the scheme and the
\* authority of the current URL and replaces its path; the result is cleaned
\* and becomes the current URL; the fixture's /root-redirect ends at /ok.
C4_RootRedirect ==
    call.op = "unshort_url" =>
        /\ \A i \in 1..Len(responses) :
              RootHop(i)
                 => HopFollows(i, requests[i].scheme \o "://" \o requests[i].netloc
                                     \o responses[i].location)
        /\ EndedDefault(base_url \o "/root-redirect")
              => pc = "returned" /\ result = base_url \o "/ok"

C4_Witness ==
    /\ EndedDefault(base_url \o "/root-redirect")
    /\ pc = "returned"
    /\ Len(responses) = 3
    /\ RootHop(1)
    /\ engine_calls[2].arg = base_url \o "/redirect-to-tracking"
    /\ requests[2] = RequestFor(base_url \o "/redirect-to-tracking")
    /\ result = base_url \o "/ok"

(***************************************************************************)
(* Properties of parse_rules                                               *)
(***************************************************************************)
\* C5: cleaning is idempotent: parse_rules, with the same options, leaves
\* its own result as it is.
C5_CleanIdempotent ==
    \A k \in 1..Len(engine_calls) :
        parse_rules(engine_calls[k].result, call.kwargs) = engine_calls[k].result

\* the events of the trace that belong to the loop over the providers
ProviderEvents == {n \in 1..Len(trace) : trace[n].stage # "replacement"}

\* the four rewriting stages of a provider
RewritingStages == {"redirections", "rules", "referrals", "raws"}

\* the place of a stage in one provider's turn
StageRank(stage) ==
    CASE stage = "blocked"      -> 0
      [] stage = "urlPattern"   -> 1
      [] stage = "exceptions"   -> 2
      [] stage = "redirections" -> 3
      [] stage = "rules"        -> 4
      [] stage = "referrals"    -> 5
      [] stage = "raws"         -> 6
      [] OTHER                  -> 7

\* provider i matches url and one of its exceptions matches url too
MatchedAndExcepted(i, url) ==
    /\ re_match(patterns[i].pattern, url)
    /\ \E k \in 1..Len(patterns[i].exceptions) : re_match(patterns[i].exceptions[k], url)

\* C6: with ignore_exceptions false, a provider that sees a URL matching its
\* urlPattern and one of its exceptions applies none of its redirections,
\* rules, referrals and raws: the URL leaves the provider as it entered.
C6_ExceptionShortCircuit ==
    ~call.kwargs.ignore_exceptions =>
        \A n \in ProviderEvents :
            (trace[n].stage = "urlPattern"
                /\ MatchedAndExcepted(trace[n].index, trace[n].before))
            => \A m \in ProviderEvents :
                  trace[m].index = trace[n].index
                  => /\ trace[m].stage \notin RewritingStages
                     /\ trace[m].before = trace[n].before
                     /\ trace[m].after = trace[n].before

C6_Witness ==
    /\ call.op = "clear_url"
    /\ call.url = "http://go.to/keep/ref=1?id=2&utm_source=5"
    /\ call.kwargs = DefaultOptions
    /\ pc = "returned"
    /\ \E n \in ProviderEvents :
          /\ trace[n].index = 1 /\ trace[n].stage = "exceptions" /\ trace[n].hit
          /\ MatchedAndExcepted(1, trace[n].before)
    /\ result = "http://go.to/keep/ref=1?id=2"
    /\ parse_rules(call.url, [call.kwargs EXCEPT !.ignore_exceptions = TRUE])
          = "http://go.to/keep"

\* C7: one parse_rules call visits the providers in the order of the
\* ruleset; each provider tests its urlPattern and exceptions on the URL as
\* the earlier providers left it; inside a provider the stages run in the
\* order redirections, rules, referrals, raws, each on the output of the
\* stage before it.
C7_ProviderAndStageOrder ==
    trace # <<>> =>
        /\ \A i \in 1..Len(patterns) : patterns[i].pattern = DataProviders[i].urlPattern
        /\ trace[1].index = 1
        /\ trace[1].before = engine_calls[Len(engine_calls)].arg
        /\ {trace[n].index : n \in ProviderEvents} = 1..Len(DataProviders)
        /\ \A n \in ProviderEvents :
              /\ trace[n].stage \notin RewritingStages => trace[n].after = trace[n].before
              /\ (n + 1) \in ProviderEvents
                 => /\ trace[n + 1].before = trace[n].after
                    /\ \/ /\ trace[n + 1].index = trace[n].index
                          /\ StageRank(trace[n + 1].stage) > StageRank(trace[n].stage)
                       \/ /\ trace[n + 1].index = trace[n].index + 1
                          /\ StageRank(trace[n + 1].stage) <= 1

C7_Witness ==
    /\ call.url = "http://go.to/r?u=http%3A%2F%2Fkeep.io%2F%3Futm_source%3D1"
    /\ call.kwargs = DefaultOptions
    /\ \A st \in RewritingStages :
          \E n \in ProviderEvents : trace[n].index = 1 /\ trace[n].stage = st
    /\ \E n, m \in ProviderEvents :
          /\ n < m
          /\ trace[n].index = 1 /\ trace[n].stage = "redirections" /\ trace[n].hit
          /\ trace[m].index = 2 /\ trace[m].stage = "exceptions" /\ trace[m].hit
          /\ trace[m].before = "http://keep.io/?utm_source=1"
    /\ result = "http://keep.io/?utm_source=1"

\* C8: a parse_rules call that skip_local does not cut short applies every
\* global replacement exactly once, in list order, after the last provider,
\* on the string the providers left and not on the string it was given,
\* whether or not a provider matched.
C8_ReplacementsOnceInOrder ==
    (engine_calls # <<>> /\ ~call.kwargs.skip_local) =>
        /\ Len(trace) >= Len(config_replacements)
        /\ \A n \in 1..Len(trace) :
              trace[n].stage = "replacement"
                 <=> n > Len(trace) - Len(config_replacements)
        /\ \A k \in 1..Len(config_replacements) :
              \E n \in {Len(trace) - Len(config_replacements) + k} :
                 /\ trace[n].index = k
                 /\ trace[n].after = re_sub(config_replacements[k][1],
                                            config_replacements[k][2], trace[n].before)
                 /\ trace[n].before = IF n = 1 THEN engine_calls[Len(engine_calls)].arg
                                      ELSE trace[n - 1].after
        /\ engine_calls[Len(engine_calls)].result = trace[Len(trace)].after

C8_Witness ==
    /\ call.op = "unshort_url"
    /\ ~call.kwargs.skip_local
    /\ engine_calls # <<>>
    /\ engine_calls[Len(engine_calls)].arg = "ftp://x.io/?&&"
    /\ engine_calls[Len(engine_calls)].result = "ftp://x.io/"
    /\ \A n \in ProviderEvents : trace[n].stage = "urlPattern" /\ ~trace[n].hit
    /\ \E n \in 1..Len(trace) : trace[n].stage = "replacement" /\ trace[n].hit

\* C9: with skip_local true parse_rules returns a URL on a private or local
\* host as it is, and cleans every other URL as it does with skip_local
\* false.
C9_SkipLocal ==
    call.kwargs.skip_local =>
        \A k \in 1..Len(engine_calls) :
            engine_calls[k].result =
                IF is_private(engine_calls[k].arg) THEN engine_calls[k].arg
                ELSE parse_rules(engine_calls[k].arg,
                                 [call.kwargs EXCEPT !.skip_local = FALSE])

\* C10: in unshort_url a response with a redirect status and no Location
\* header ends the call with an error: no URL is returned and no request is
\* issued after that response.
C10_RedirectWithoutLocationFatal ==
    \A i \in 1..Len(responses) :
        (IsRedirect(responses[i]) /\ responses[i].location = None)
        => /\ pc = "raised"
           /\ error # None
           /\ result = None
           /\ Len(requests) = i
           /\ Len(responses) = i

C10_Witness ==
    /\ call.op = "unshort_url"
    /\ call.url = "http://x.io/nolocation"
    /\ Len(requests) = 1
    /\ Len(responses) = 1
    /\ IsRedirect(responses[1])
    /\ responses[1].location = None
    /\ pc = "raised"
    /\ result = None

(***************************************************************************)
(* Properties of the end of unshort_url and of parse_url                   *)
(***************************************************************************)
\* response i is not a redirect and its Content-Type is one mime accepts
DocumentHop(i) ==
    /\ i \in 1..Len(responses)
    /\ ~IsRedirect(responses[i])
    /\ responses[i].content_type # None
    /\ re_match(mime, responses[i].content_type)

\* response i is the one unshort_url hands to extract_url: the first document
\* of a call that parses documents
ExtractionHop(i) ==
    /\ call.parse_documents
    /\ DocumentHop(i)
    /\ \A j \in 1..(i - 1) : ~DocumentHop(j)

\* the pairs <<rule, body regex>> that give a URL for response i
BodyMatches(i) ==
    {jk \in (1..Len(redirects)) \X (1..2) :
        /\ jk[2] <= Len(redirects[jk[1]].redirects)
        /\ re_match(redirects[jk[1]].pattern, responses[i].url)
        /\ re_match(redirects[jk[1]].redirects[jk[2]], responses[i].body)}

\* C11: with parse_documents, when a non-redirect response has an accepted
\* content type and extract_url finds no URL in it, unshort_url is done: it
\* issues no request after that response and returns the current URL.
C11_NoBodyUrlIsDone ==
    call.op = "unshort_url" =>
        \A i \in 1..Len(responses) :
            (ExtractionHop(i) /\ BodyMatches(i) = {})
            => /\ Len(requests) = i
               /\ pc \in {"returned", "raised"}
                  => pc = "returned" /\ result = responses[i].url

\* C12: when unshort_url returns, the response of the last hop is closed,
\* with and without parse_documents and along each of the three ways out
\* of the loop.
C12_LastResponseClosed ==
    (call.op = "unshort_url" /\ pc = "returned") =>
        /\ Len(responses) = Len(requests)
        /\ responses[Len(responses)].closed

C12_Witness ==
    /\ call.op = "unshort_url"
    /\ call.parse_documents
    /\ pc = "returned"
    /\ Len(responses) = 2
    /\ ~DocumentHop(2)
    /\ ~responses[2].read
    /\ responses[2].closed

\* C13: clear_url and unshort_url given "" or None fail with InvalidURL; no
\* rule is applied and no request is issued.
C13_InvalidURL ==
    (call.op # "none" /\ call.url \in {None, ""}) =>
        /\ pc = "raised"
        /\ error = "InvalidURL"
        /\ result = None
        /\ engine_calls = <<>>
        /\ trace = <<>>
        /\ requests = <<>>

C13_Witness ==
    /\ call.op = "unshort_url"
    /\ call.url = ""
    /\ pc = "raised"
    /\ error = "InvalidURL"
    /\ requests = <<>>

\* the scheme a URL string is written with, in lower case: the text before
\* the first ":" when it is a letter followed by letters, digits, "+", "-"
\* and "."; "" when the string has no scheme
WrittenScheme(url) ==
    With(Find(url, ":", 1), LAMBDA c :
        IF /\ c > 1
           /\ SubSeq(url, 1, 1) \in CharsOf(UpperChars \o LowerChars)
           /\ \A n \in 1..(c - 1) :
                 SubSeq(url, n, n) \in CharsOf(UpperChars \o LowerChars \o DigitChars \o "+-.")
        THEN Lower(SubSeq(url, 1, c - 1))
        ELSE "")

\* C14: a non-empty input written with a scheme other than http and https
\* fails with InvalidScheme before any rule is applied and any request is
\* issued; an input written without a scheme gets http and passes parse_url.
C14_InvalidScheme ==
    (call.op # "none" /\ IsStr(call.url) /\ call.url # "") =>
        IF WrittenScheme(call.url) \in {"", "http", "https"}
        THEN engine_calls # <<>>
        ELSE /\ pc = "raised"
             /\ error = "InvalidScheme"
             /\ result = None
             /\ engine_calls = <<>>
             /\ trace = <<>>
             /\ requests = <<>>

C14_Witness ==
    /\ call.op = "clear_url"
    /\ call.url = "ftp://example.com"
    /\ WrittenScheme(call.url) = "ftp"
    /\ pc = "raised"
    /\ error = "InvalidScheme"
    /\ engine_calls = <<>>

(***************************************************************************)
(* Properties of the ruleset                                               *)
(***************************************************************************)
\* data and replacements are lists with something in them
ValidLists(args) ==
    /\ args.data.list /\ args.data.items # <<>>
    /\ args.replacements.list /\ args.replacements.items # <<>>

\* every file can be read and every pattern compiles
WellFormed(args) ==
    /\ ValidLists(args)
    /\ \A n \in 1..Len(args.data.items) :
          /\ args.data.items[n].json
          /\ \A k \in 1..Len(args.data.items[n].entries) :
                ~ProviderRaises(args.data.items[n].entries[k])
    /\ \A k \in 1..Len(args.replacements.items) :
          ~ReCompileRaises(args.replacements.items[k][1])
    /\ \A n \in 1..Len(args.redirects) :
          /\ args.redirects[n].json
          /\ \A k \in 1..Len(args.redirects[n].entries) :
                ~RedirectRuleRaises(args.redirects[n].entries[k])

\* C15: compile_patterns gives all or nothing: with data or replacements
\* empty or not a list it raises InvalidList before a file is read; with a
\* file or a pattern that is malformed it raises; after a failure nothing
\* is bound, not even what was compiled before it, and no call of clear_url
\* or unshort_url runs without the whole ruleset.
C15_CompileAllOrNothing ==
    /\ compiling.phase # "none" => ~ruleset.bound
    /\ pc = "import_failed"
          => /\ compiling.phase = "raised"
             /\ error # None
             /\ ~ruleset.bound
             /\ call = NoCall
    /\ (compiling.phase # "none" /\ ~ValidLists(compiling.args))
          => /\ pc = "import_failed"
             /\ error = "InvalidList"
             /\ compiling.files_read = 0
             /\ compiling.compiled_data = <<>>
    /\ (compiling.phase # "none" /\ ~WellFormed(compiling.args))
          => ~(compiling.phase = "redirects"
                 /\ compiling.file > Len(compiling.args.redirects))
    /\ ruleset.bound => ruleset = Bound(<<patterns, replacements, redirects>>)
    /\ call.op # "none" => ruleset.bound

C15_Witness ==
    /\ pc = "import_failed"
    /\ error = "JSONDecodeError"
    /\ compiling.files_read = 2
    /\ Len(compiling.compiled_data) = 1
    /\ ~ruleset.bound

\* how a call ends
Outcome(pc_, result_, error_) == [pc |-> pc_, result |-> result_, error |-> error_]

\* the URL lines 317-326 build from a Location
NextUrl(p, location) ==
    IF IsAbsolute(location) THEN location
    ELSE IF StartsWith(location, "/") THEN RootRedirectUrl(p, location)
    ELSE RelativeRedirectUrl(p, location)

\* unshort_url run by itself from the current URL p, after n requests
RECURSIVE UnshortAlone(_, _, _, _, _)
UnshortAlone(p, n, extracted, pd, o) ==
    IF p.scheme \notin {"http", "https"} THEN Outcome("raised", None, "InvalidScheme")
    ELSE IF n = MaxHops THEN Outcome("requesting", None, None)
    ELSE With(Server(p.scheme, p.netloc, RequestTarget(p)), LAMBDA r :
        IF r = NoResponse THEN Outcome("raised", None, "RemoteDisconnected")
        ELSE IF IsRedirect(r)
        THEN IF r.location = None THEN Outcome("raised", None, "AttributeError")
             ELSE UnshortAlone(urlparse(parse_rules(NextUrl(p, r.location), o)),
                               n + 1, extracted, pd, o)
        ELSE IF ~pd THEN Outcome("returned", geturl(p), None)
        ELSE IF r.content_type = None THEN Outcome("raised", None, "TypeError")
        ELSE IF ~re_match(mime, r.content_type) \/ extracted # Unbound
        THEN Outcome("returned", geturl(p), None)
        ELSE With(FirstBodyMatch(1, 1, r.body, geturl(p)), LAMBDA found :
                IF found = None THEN UnshortAlone(p, n + 1, None, pd, o)
                ELSE UnshortAlone(urlparse(parse_rules(found, o)), n + 1,
                                  parse_rules(found, o), pd, o)))

\* the call c run by itself
AloneOutcome(c) ==
    IF ParseUrlError(c.url) # None THEN Outcome("raised", None, ParseUrlError(c.url))
    ELSE IF c.op = "clear_url"
    THEN Outcome("returned", parse_rules(parse_url(c.url), c.kwargs), None)
    ELSE UnshortAlone(urlparse(parse_rules(parse_url(c.url), c.kwargs)), 0, Unbound,
                      c.parse_documents, c.kwargs)

\* C16: no step of a clear_url or unshort_url call changes the compiled
\* ruleset, and of two calls that run interleaved each ends as it ends when
\* it runs by itself against the same responses.
C16_RulesetImmutableCallsIndependent ==
    /\ ruleset = Bound(<<patterns, replacements, redirects>>)
    /\ \A l \in {Locals, parked} :
          l.pc \in {"returned", "raised"}
          => Outcome(l.pc, l.result, l.error) = AloneOutcome(l.call)

C16_Witness ==
    /\ call.op = "unshort_url"
    /\ call.parse_documents
    /\ pc = "returned"
    /\ extracted_url \notin {Unbound, None}
    /\ parked.call.op = "unshort_url"
    /\ parked.call.url = "http://go.to/p"
    /\ parked.call.parse_documents
    /\ parked.pc = "awaiting"
    /\ parked.extracted_url = Unbound

(***************************************************************************)
(* Properties of the loop of unshort_url                                   *)
(***************************************************************************)
\* every response so far is a redirect with a Location
OnlyRedirects == \A i \in 1..Len(responses) : RedirectHop(i)

\* the server answers the current URL with a redirect that has a Location
NextIsRedirect ==
    /\ parsed_url.scheme \in {"http", "https"}
    /\ Server(parsed_url.scheme, parsed_url.netloc, RequestTarget(parsed_url)) # NoResponse
    /\ IsRedirect(Server(parsed_url.scheme, parsed_url.netloc, RequestTarget(parsed_url)))
    /\ Server(parsed_url.scheme, parsed_url.netloc, RequestTarget(parsed_url)).location # None

\* C17: the loop of unshort_url has no guard on the number of hops or on
\* cycles: while every response is a redirect with a Location the call neither
\* returns nor gives up, and on the cycle /loop -> /loop?id=1 -> /loop it is
\* about to request again after any number of requests.
C17_NoHopGuard ==
    call.op = "unshort_url" =>
        /\ (Len(responses) >= 1 /\ OnlyRedirects)
              => /\ pc # "returned"
                 /\ pc = "raised" => error \in {"InvalidScheme", "RemoteDisconnected"}
        /\ (call.url = "http://x.io/loop")
              => /\ pc \in {"requesting", "awaiting"}
                 /\ OnlyRedirects
                 /\ result = None /\ error = None
                 /\ pc = "requesting" => NextIsRedirect

C17_Witness ==
    /\ call.op = "unshort_url"
    /\ call.url = "http://x.io/loop"
    /\ Len(requests) = MaxHops
    /\ Len(responses) = MaxHops
    /\ OnlyRedirects
    /\ pc = "requesting"
    /\ NextIsRedirect

\* C18: a call with parse_documents = False sends its requests one after
\* the other, each only when the response to the one before is in; it never
\* reads a body; the first response that is not a redirect, after n redirects
\* with a Location, ends the call with exactly n + 1 requests sent, and the
\* value returned is the current URL that last request was sent for.
C18_NoBodyFollowing ==
    (call.op = "unshort_url" /\ ~call.parse_documents) =>
        /\ Len(requests) - Len(responses) \in {0, 1}
        /\ pc = "awaiting" => Len(requests) = Len(responses) + 1
        /\ pc \in {"requesting", "returned"} => Len(requests) = Len(responses)
        /\ extracted_url = Unbound
        /\ \A i \in 1..Len(responses) :
              /\ ~responses[i].read
              /\ requests[i] = RequestFor(responses[i].url)
              /\ ~IsRedirect(responses[i])
                    => /\ \A j \in 1..(i - 1) : RedirectHop(j)
                       /\ Len(responses) = i
                       /\ Len(requests) = i
                       /\ pc = "returned"
                       /\ result = responses[i].url
        /\ pc = "returned" => ~IsRedirect(responses[Len(responses)])

C18_Witness ==
    /\ call.op = "unshort_url"
    /\ ~call.parse_documents
    /\ pc = "returned"
    /\ Len(requests) = 3
    /\ RedirectHop(1) /\ RedirectHop(2)
    /\ responses[3].status = 200
    /\ responses[3].content_type # None
    /\ re_match(mime, responses[3].content_type)
    /\ result = responses[3].url

(***************************************************************************)
(* Properties of the options of parse_rules                                *)
(***************************************************************************)
\* the call's options switch the stage off
StageOff(stage) ==
    \/ stage = "redirections" /\ call.kwargs.ignore_redirections
    \/ stage = "rules" /\ call.kwargs.ignore_rules
    \/ stage = "referrals" /\ call.kwargs.allow_referral
    \/ stage = "raws" /\ call.kwargs.ignore_raw

\* the events of provider i in the trace
EventsOf(i) == {n \in ProviderEvents : trace[n].index = i}

\* C19: in a parse_rules call a stage whose option is set is run for no
\* provider; a provider that matched and was not excepted runs each of the
\* other stages, as that stage is defined, on the string it receives; with
\* skip_blocked a complete provider is passed over before its urlPattern is
\* tried, and no other provider is; with the four stage options set the
\* providers leave the URL as it was given.
C19_OptionsGateStages ==
    /\ \A n \in ProviderEvents :
          /\ trace[n].stage \in RewritingStages
                => /\ ~StageOff(trace[n].stage)
                   /\ trace[n].after
                         = ApplyStage(trace[n].stage, patterns[trace[n].index], trace[n].before)
          /\ trace[n].stage = "blocked"
                <=> (call.kwargs.skip_blocked /\ patterns[trace[n].index].complete)
          /\ trace[n].stage = "blocked"
                => /\ EventsOf(trace[n].index) = {n}
                   /\ trace[n].after = trace[n].before
          /\ (/\ trace[n].stage = "urlPattern"
              /\ re_match(patterns[trace[n].index].pattern, trace[n].before)
              /\ (call.kwargs.ignore_exceptions
                    \/ ~MatchedAndExcepted(trace[n].index, trace[n].before)))
                => {trace[m].stage : m \in EventsOf(trace[n].index)} \cap RewritingStages
                      = {st \in RewritingStages : ~StageOff(st)}
    /\ (\A st \in RewritingStages : StageOff(st))
          => \A n \in ProviderEvents :
                /\ trace[n].before = engine_calls[Len(engine_calls)].arg
                /\ trace[n].after = engine_calls[Len(engine_calls)].arg

C19_Witness ==
    /\ call.op = "clear_url"
    /\ call.url = "http://go.to/a/ref=1?id=2&tag=3&ref=4&utm_source=5&z=6"
    /\ call.kwargs = [DefaultOptions EXCEPT !.allow_referral = TRUE]
    /\ pc = "returned"
    /\ {trace[m].stage : m \in EventsOf(1)} \cap RewritingStages
          = {"redirections", "rules", "raws"}
    /\ \E n \in EventsOf(1) : trace[n].stage = "rules" /\ trace[n].hit
    /\ \E n \in EventsOf(1) : trace[n].stage = "raws" /\ trace[n].hit
    /\ result = "http://go.to/a?tag=3&ref=4&z=6"
    /\ parse_rules(call.url, DefaultOptions) = "http://go.to/a?z=6"

(***************************************************************************)
(* Properties of extract_url                                               *)
(***************************************************************************)
\* jk comes before every other pair of BodyMatches(i): rules in load order,
\* the body patterns of a rule in list order
FirstOf(i, jk) ==
    /\ jk \in BodyMatches(i)
    /\ \A o \in BodyMatches(i) : jk[1] < o[1] \/ (jk[1] = o[1] /\ jk[2] <= o[2])

\* the parse_rules calls made while response i was handled
EngineCallsAt(i) == {k \in 1..Len(engine_calls) : engine_calls[k].hop = i}

\* C20: the URL extract_url gives for the document of a hop is found with the
\* rules whose pattern matches the URL that document was fetched for, whatever
\* the URL the call was given: it is the first group of the first body pattern
\* that matches, rules in load order and body patterns in list order, and it
\* goes once through parse_rules; it is None exactly when no body pattern of
\* such a rule matches.
C20_BodyExtraction ==
    call.op = "unshort_url" =>
        \A i \in 1..Len(responses) :
            ExtractionHop(i) =>
                /\ responses[i].read
                      <=> \E j \in 1..Len(redirects) :
                             re_match(redirects[j].pattern, responses[i].url)
                /\ BodyMatches(i) = {}
                      => extracted_url = None /\ EngineCallsAt(i) = {}
                /\ \A jk \in BodyMatches(i) :
                      FirstOf(i, jk)
                      => /\ Cardinality(EngineCallsAt(i)) = 1
                         /\ \A k \in EngineCallsAt(i) :
                               /\ engine_calls[k].arg
                                     = Group1(redirects[jk[1]].redirects[jk[2]],
                                              responses[i].body, 1)
                               /\ engine_calls[k].result
                                     = parse_rules(engine_calls[k].arg, call.kwargs)
                               /\ extracted_url = engine_calls[k].result

C20_Witness ==
    /\ call.op = "unshort_url"
    /\ call.url = "http://x.io/top"
    /\ call.parse_documents
    /\ call.kwargs = DefaultOptions
    /\ pc = "returned"
    /\ ExtractionHop(2)
    /\ responses[2].url = "http://go.to/p/both"
    /\ \A j \in 1..Len(redirects) : ~re_match(redirects[j].pattern, call.url)
    /\ BodyMatches(2) = {<<1, 1>>, <<1, 2>>, <<2, 1>>, <<2, 2>>}
    /\ extracted_url = "http://x.io/u"
    /\ requests[3] = RequestFor("http://x.io/u")
    /\ result = "http://x.io/u"

(***************************************************************************)
(* Properties of the document branch of unshort_url                        *)
(***************************************************************************)
\* response i is not a redirect and its Content-Type is absent or is one
\* mime does not accept
NoDocumentHop(i) ==
    /\ i \in 1..Len(responses)
    /\ ~IsRedirect(responses[i])
    /\ ~DocumentHop(i)

\* C21: in a call that parses documents, a non-redirect response whose
\* Content-Type is absent or not accepted by mime ends the call: it returns
\* the current URL, raises nothing, does not read the body and makes no
\* parse_rules call for an extracted URL.
C21_NoDocumentIsDone ==
    (call.op = "unshort_url" /\ call.parse_documents) =>
        \A i \in 1..Len(responses) :
            NoDocumentHop(i)
            => /\ pc = "returned"
               /\ error = None
               /\ result = responses[i].url
               /\ Len(requests) = i
               /\ ~responses[i].read
               /\ EngineCallsAt(i) = {}

\* C22: a call of unshort_url hands at most one response to extract_url, the
\* first document it receives; every document after that one ends the call
\* with the current URL, unread and without a parse_rules call, also when a
\* redirect rule matches its URL and a body pattern matches its body.
C22_ExtractionOnce ==
    (call.op = "unshort_url" /\ call.parse_documents) =>
        /\ Cardinality({i \in 1..Len(responses) : responses[i].read}) <= 1
        /\ \A i \in 1..Len(responses) :
              /\ responses[i].read => ExtractionHop(i)
              /\ (DocumentHop(i) /\ ~ExtractionHop(i))
                    => /\ pc = "returned"
                       /\ Len(requests) = i
                       /\ result = responses[i].url
                       /\ ~responses[i].read
                       /\ EngineCallsAt(i) = {}

C22_Witness ==
    /\ call.op = "unshort_url"
    /\ call.url = "http://go.to/p/again"
    /\ call.parse_documents
    /\ pc = "returned"
    /\ Len(responses) = 2
    /\ ExtractionHop(1) /\ responses[1].read
    /\ DocumentHop(2)
    /\ BodyMatches(2) # {}
    /\ ~responses[2].read
    /\ result = "http://go.to/p"

(***************************************************************************)
(* Properties of creat_connection                                          *)
(***************************************************************************)
HttpSchemes == {"http", "https"}

\* C23: every request of unshort_url is sent for a URL whose scheme is http
\* or https; once parse_rules, on the URL given, on a redirect or on an
\* extracted URL, has left a current URL of another or of no scheme, the
\* call sends nothing more and ends with InvalidScheme.
C23_RequestsOnlyHttp ==
    call.op = "unshort_url" =>
        /\ \A i \in 1..Len(requests) : requests[i].scheme \in HttpSchemes
        /\ (engine_calls # <<>> /\ parsed_url.scheme \notin HttpSchemes)
              => /\ pc = "requesting" \/ (pc = "raised" /\ error = "InvalidScheme")
                 /\ Len(requests) = engine_calls[Len(engine_calls)].hop
                 /\ Len(responses) = Len(requests)
        /\ (pc = "raised" /\ error = "InvalidScheme" /\ engine_calls # <<>>)
              => parsed_url.scheme \notin HttpSchemes

C23_Witness ==
    /\ call.op = "unshort_url"
    /\ call.url = "http://go.to/p/ftp"
    /\ call.parse_documents
    /\ pc = "raised"
    /\ error = "InvalidScheme"
    /\ Len(requests) = 1
    /\ responses[1].read
    /\ parsed_url.scheme = "ftp"
    /\ extracted_url = geturl(parsed_url)

(***************************************************************************)
(* Properties of the responses' release                                    *)
(***************************************************************************)
\* C24: with and without parse_documents, the response of a hop is closed
\* before the request of the next hop is sent, so that every response the
\* call obtained is closed when unshort_url returns.
C24_EveryResponseClosed ==
    call.op = "unshort_url" =>
        /\ \A i \in 1..Len(responses) : i < Len(requests) => responses[i].closed
        /\ pc = "returned" => \A i \in 1..Len(responses) : responses[i].closed

=============================================================================
